---------------------------- MODULE Spec2Model ----------------------------
(***************************************************************************)
(* Model of the shipping-charge estimator's pricing/selection engine:      *)
(* the strategy set and ShippingStrategyFactory (src/src/strategies), and  *)
(* ShippingChargeService (src/src/services/shipping_charge_service.py).    *)
(*                                                                         *)
(* Python floats are IEEE-754 binary64.  They are modelled exactly: a      *)
(* finite value is sign * man * 2^exp with a 53-bit significand held as a  *)
(* little-endian sequence of 15-bit limbs, and every arithmetic step       *)
(* rounds to nearest, ties to even, as the hardware does.  The exponent    *)
(* range is not bounded: no value of the model comes near the subnormal or *)
(* overflow range of binary64.                                             *)
(***************************************************************************)
EXTENDS Integers, Sequences, FiniteSets, TLC

(***************************************************************************)
(* Unbounded naturals as limb sequences (least significant limb first, no  *)
(* leading zero limb; zero is the empty sequence).                         *)
(***************************************************************************)
LimbBits == 15
Base == 2 ^ LimbBits
MantBits == 53

RECURSIVE BNorm(_)
BNorm(a) ==
    IF a = <<>> THEN a
    ELSE IF a[Len(a)] = 0 THEN BNorm(SubSeq(a, 1, Len(a) - 1)) ELSE a

RECURSIVE Big(_)
Big(n) == IF n = 0 THEN <<>> ELSE <<n % Base>> \o Big(n \div Base)

Head0(a) == IF a = <<>> THEN 0 ELSE Head(a)
Tail0(a) == IF a = <<>> THEN a ELSE Tail(a)

RECURSIVE BAddC(_, _, _)
BAddC(a, b, c) ==
    IF a = <<>> /\ b = <<>> THEN (IF c = 0 THEN <<>> ELSE <<c>>)
    ELSE <<(Head0(a) + Head0(b) + c) % Base>>
         \o BAddC(Tail0(a), Tail0(b), (Head0(a) + Head0(b) + c) \div Base)

BAdd(a, b) == BAddC(a, b, 0)

\* a - b for a >= b
RECURSIVE BSubC(_, _, _)
BSubC(a, b, c) ==
    IF a = <<>> THEN <<>>
    ELSE <<(Head(a) - Head0(b) - c + Base) % Base>>
         \o BSubC(Tail(a), Tail0(b), IF Head(a) - Head0(b) - c < 0 THEN 1 ELSE 0)

BSub(a, b) == BNorm(BSubC(a, b, 0))

\* -1, 0, 1 as a < b, a = b, a > b
RECURSIVE BCmpFrom(_, _, _)
BCmpFrom(a, b, i) ==
    IF i = 0 THEN 0
    ELSE IF a[i] < b[i] THEN -1
    ELSE IF a[i] > b[i] THEN 1
    ELSE BCmpFrom(a, b, i - 1)

BCmp(a, b) ==
    IF Len(a) < Len(b) THEN -1
    ELSE IF Len(a) > Len(b) THEN 1
    ELSE BCmpFrom(a, b, Len(a))

\* a * k + c for 0 <= k < Base
RECURSIVE BMulSmallC(_, _, _)
BMulSmallC(a, k, c) ==
    IF a = <<>> THEN (IF c = 0 THEN <<>> ELSE <<c>>)
    ELSE <<(Head(a) * k + c) % Base>>
         \o BMulSmallC(Tail(a), k, (Head(a) * k + c) \div Base)

BMulSmall(a, k) == BNorm(BMulSmallC(a, k, 0))

TimesBase(a) == IF a = <<>> THEN a ELSE <<0>> \o a

RECURSIVE BMul(_, _)
BMul(a, b) ==
    IF a = <<>> \/ b = <<>> THEN <<>>
    ELSE BAdd(BMulSmall(a, Head(b)), TimesBase(BMul(a, Tail(b))))

\* <<quotient, remainder>> of a by k, 0 < k < Base; limbs taken from the top
PutDigit(rest, digit) == <<rest[1] \o <<digit>>, rest[2]>>

RECURSIVE BDivSmallFrom(_, _, _, _)
BDivSmallFrom(a, k, i, r) ==
    IF i = 0 THEN <<(<<>>), r>>
    ELSE PutDigit(BDivSmallFrom(a, k, i - 1, (r * Base + a[i]) % k),
                  (r * Base + a[i]) \div k)

NormQuotient(qr) == <<BNorm(qr[1]), qr[2]>>

BDivSmall(a, k) == NormQuotient(BDivSmallFrom(a, k, Len(a), 0))

Zeros(n) == [i \in 1..n |-> 0]

BShl(a, n) ==
    IF a = <<>> THEN a
    ELSE Zeros(n \div LimbBits) \o BMulSmall(a, 2 ^ (n % LimbBits))

BShr(a, n) ==
    IF Len(a) <= n \div LimbBits THEN <<>>
    ELSE BDivSmall(SubSeq(a, (n \div LimbBits) + 1, Len(a)),
                   2 ^ (n % LimbBits))[1]

RECURSIVE IntBitLen(_)
IntBitLen(n) == IF n = 0 THEN 0 ELSE 1 + IntBitLen(n \div 2)

BitLen(a) ==
    IF a = <<>> THEN 0 ELSE LimbBits * (Len(a) - 1) + IntBitLen(a[Len(a)])

BIsOdd(a) == a # <<>> /\ a[1] % 2 = 1

\* floor(a / 2^n) rounded to the nearest integer, ties to even: q is the
\* floor, and the remainder a - q * 2^n is compared with the half 2^(n-1)
RoundUp(cmp, q) == cmp > 0 \/ (cmp = 0 /\ BIsOdd(q))

BShrQ(a, n, q) ==
    IF RoundUp(BCmp(BSub(a, BShl(q, n)), BShl(<<1>>, n - 1)), q)
    THEN BAdd(q, <<1>>)
    ELSE q

BShrNE(a, n) == IF n = 0 THEN a ELSE BShrQ(a, n, BShr(a, n))

(***************************************************************************)
(* binary64 values.  kind "fin": (-1)^sign * man * 2^exp with man = 0 or   *)
(* BitLen(man) = MantBits; kind "inf": math.inf; kind "nan": not a number. *)
(***************************************************************************)
FZero == [kind |-> "fin", sign |-> 0, man |-> <<>>, exp |-> 0]
FInf == [kind |-> "inf", sign |-> 0, man |-> <<>>, exp |-> 0]
FNaN == [kind |-> "nan", sign |-> 0, man |-> <<>>, exp |-> 0]

Fin(sign, man, exp) == [kind |-> "fin", sign |-> sign, man |-> man, exp |-> exp]

\* q is man rounded to MantBits bits after dropping sh bits; a carry out of
\* the rounding leaves the power of two 2^MantBits, renormalised by one bit
Renorm(sign, q, exp) ==
    IF BitLen(q) > MantBits THEN Fin(sign, BShr(q, 1), exp + 1) ELSE Fin(sign, q, exp)

\* the binary64 nearest to (-1)^sign * man * 2^exp (ties to even), L = BitLen(man)
RoundL(sign, man, exp, L) ==
    IF L = 0 THEN FZero
    ELSE IF L <= MantBits THEN Fin(sign, BShl(man, MantBits - L), exp - (MantBits - L))
    ELSE Renorm(sign, BShrNE(man, L - MantBits), exp + (L - MantBits))

RoundNE(sign, man, exp) == RoundL(sign, man, exp, BitLen(man))

\* the binary64 nearest to num / den (num a limb sequence, 0 < den < Base): the
\* quotient of num * 2^s by den is taken with at least three guard bits, and a
\* sticky bit is appended for a non-zero remainder
Sticky(qr) == BAdd(BShl(qr[1], 1), IF qr[2] = 0 THEN <<>> ELSE <<1>>)

FromRatioS(sign, num, den, s) ==
    RoundNE(sign, Sticky(BDivSmall(BShl(num, s), den)), 0 - s - 1)

GuardShift(need) == IF need > 0 THEN need ELSE 0

FromRatio(sign, num, den) ==
    IF num = <<>> THEN FZero
    ELSE FromRatioS(sign, num, den,
                    GuardShift(MantBits + 3 + IntBitLen(den) - BitLen(num)))

\* the float written as the decimal literal n/d (d a power of ten), or int n
Dec(n, d) == FromRatio(IF n < 0 THEN 1 ELSE 0, Big(IF n < 0 THEN 0 - n ELSE n), d)

\* x * y for finite x, y
FMul(x, y) ==
    RoundNE((x.sign + y.sign) % 2, BMul(x.man, y.man), x.exp + y.exp)

\* x + y for finite x, y >= 0: the significands are aligned on the smaller exponent e
FAddE(x, y, e) ==
    RoundNE(0, BAdd(BShl(x.man, x.exp - e), BShl(y.man, y.exp - e)), e)

FAdd(x, y) ==
    IF x.man = <<>> THEN y
    ELSE IF y.man = <<>> THEN x
    ELSE FAddE(x, y, IF x.exp < y.exp THEN x.exp ELSE y.exp)

\* -1, 0, 1 as |x| < |y|, |x| = |y|, |x| > |y| for finite x, y
MagCmp(x, y) ==
    IF x.man = <<>> /\ y.man = <<>> THEN 0
    ELSE IF x.man = <<>> THEN -1
    ELSE IF y.man = <<>> THEN 1
    ELSE IF x.exp < y.exp THEN -1
    ELSE IF x.exp > y.exp THEN 1
    ELSE BCmp(x.man, y.man)

\* -1, 0, 1 as x < y, x = y, x > y for x, y not NaN
FCmp(x, y) ==
    IF x.kind = "inf" /\ y.kind = "inf" THEN 0
    ELSE IF x.kind = "inf" THEN 1
    ELSE IF y.kind = "inf" THEN -1
    ELSE IF x.sign # y.sign THEN (IF x.sign = 1 THEN -1 ELSE 1)
    ELSE IF x.sign = 1 THEN 0 - MagCmp(x, y)
    ELSE MagCmp(x, y)

\* Python's x < y and x <= y: false as soon as an operand is NaN
FLt(x, y) == x.kind # "nan" /\ y.kind # "nan" /\ FCmp(x, y) < 0
FLe(x, y) == x.kind # "nan" /\ y.kind # "nan" /\ FCmp(x, y) <= 0

\* |x| * 100 rounded to an integer, ties to even, on the exact value of x
Cents(x) ==
    IF x.exp >= 0 THEN BShl(BMulSmall(x.man, 100), x.exp)
    ELSE BShrNE(BMulSmall(x.man, 100), 0 - x.exp)

\* Python's round(x, 2): the exact value of x is rounded to two decimals
\* (ties to even) and the decimal is converted back to the nearest float
Round2(x) ==
    IF x.kind # "fin" \/ x.exp >= 0 THEN x
    ELSE FromRatio(x.sign, Cents(x), 100)

(***************************************************************************)
(* Strategies (src/src/strategies).  A strategy object is a record of its  *)
(* four properties; in the factory's list it is paired with the ordinal of *)
(* its insertion (uid), which stands for the object's identity.            *)
(***************************************************************************)
MiniVanStrategy ==
    [mode_name |-> "Mini Van", min_distance |-> Dec(0, 1),
     max_distance |-> Dec(100, 1), rate_per_km_per_kg |-> Dec(3, 1)]

\* a Truck tier that starts late and leaves [100, 150) uncovered
TruckStrategyLate ==
    [mode_name |-> "Truck", min_distance |-> Dec(150, 1),
     max_distance |-> Dec(500, 1), rate_per_km_per_kg |-> Dec(2, 1)]

TruckStrategy ==
    [mode_name |-> "Truck", min_distance |-> Dec(100, 1),
     max_distance |-> Dec(500, 1), rate_per_km_per_kg |-> Dec(2, 1)]

\* an Aeroplane tier with a finite upper bound
AeroplaneStrategyBounded ==
    [mode_name |-> "Aeroplane", min_distance |-> Dec(500, 1),
     max_distance |-> Dec(1000, 1), rate_per_km_per_kg |-> Dec(1, 1)]

AeroplaneStrategy ==
    [mode_name |-> "Aeroplane", min_distance |-> Dec(500, 1),
     max_distance |-> FInf, rate_per_km_per_kg |-> Dec(1, 1)]

\* is_applicable with the upper bound included
is_applicable_closed(s, distance_km) ==
    FLe(s.min_distance, distance_km) /\ FLe(distance_km, s.max_distance)

\* ShippingStrategy.is_applicable
is_applicable(s, distance_km) ==
    FLe(s.min_distance, distance_km) /\ FLt(distance_km, s.max_distance)

\* calculate_cost returning the unrounded product
calculate_cost_unrounded(s, distance_km, weight_kg) ==
    [transport_cost |-> FMul(FMul(distance_km, s.rate_per_km_per_kg), weight_kg),
     distance_km |-> distance_km,
     weight_kg |-> weight_kg,
     transport_mode |-> s.mode_name,
     rate_per_km_per_kg |-> s.rate_per_km_per_kg]

\* calculate_cost that leaves the distance out of the product
calculate_cost_flat(s, distance_km, weight_kg) ==
    [transport_cost |-> Round2(FMul(s.rate_per_km_per_kg, weight_kg)),
     distance_km |-> distance_km,
     weight_kg |-> weight_kg,
     transport_mode |-> s.mode_name,
     rate_per_km_per_kg |-> s.rate_per_km_per_kg]

\* ShippingStrategy.calculate_cost
calculate_cost(s, distance_km, weight_kg) ==
    LET transport_cost == FMul(FMul(distance_km, s.rate_per_km_per_kg), weight_kg)
    IN  [transport_cost |-> Round2(transport_cost),
         distance_km |-> distance_km,
         weight_kg |-> weight_kg,
         transport_mode |-> s.mode_name,
         rate_per_km_per_kg |-> s.rate_per_km_per_kg]

\* an entry of ShippingStrategyFactory._strategies
Entry(s, uid) == [strategy |-> s, uid |-> uid]

\* ShippingStrategyFactory.__init__
DefaultStrategies ==
    <<Entry(MiniVanStrategy, 1), Entry(TruckStrategy, 2), Entry(AeroplaneStrategy, 3)>>

\* list.sort(key=lambda s: s.min_distance): a stable sort, so x goes behind
\* every element of the sorted prefix whose key is not greater than its own
RECURSIVE InsertByMinBeforeEqual(_, _)
InsertByMinBeforeEqual(sorted, x) ==
    IF sorted = <<>> THEN <<x>>
    ELSE IF FLe(x.strategy.min_distance, sorted[Len(sorted)].strategy.min_distance)
    THEN InsertByMinBeforeEqual(SubSeq(sorted, 1, Len(sorted) - 1), x)
         \o <<sorted[Len(sorted)]>>
    ELSE sorted \o <<x>>

RECURSIVE InsertByMin(_, _)
InsertByMin(sorted, x) ==
    IF sorted = <<>> THEN <<x>>
    ELSE IF FLt(x.strategy.min_distance, sorted[Len(sorted)].strategy.min_distance)
    THEN InsertByMin(SubSeq(sorted, 1, Len(sorted) - 1), x) \o <<sorted[Len(sorted)]>>
    ELSE sorted \o <<x>>

\* register_strategy without its sort
SortByMinSkipped(list) == list

RECURSIVE SortByMin(_)
SortByMin(list) ==
    IF list = <<>> THEN <<>>
    ELSE InsertByMin(SortByMin(SubSeq(list, 1, Len(list) - 1)), list[Len(list)])

\* the for loop of get_strategy: the first applicable entry from position i on,
\* and the last entry of the list when the loop ends without a return
RECURSIVE ScanFromFallbackFirst(_, _, _)
ScanFromFallbackFirst(list, distance_km, i) ==
    IF i > Len(list) THEN list[1]
    ELSE IF is_applicable(list[i].strategy, distance_km) THEN list[i]
    ELSE ScanFromFallbackFirst(list, distance_km, i + 1)

RECURSIVE ScanFrom(_, _, _)
ScanFrom(list, distance_km, i) ==
    IF i > Len(list) THEN list[Len(list)]
    ELSE IF is_applicable(list[i].strategy, distance_km) THEN list[i]
    ELSE ScanFrom(list, distance_km, i + 1)

\* get_strategy without the sign check
get_strategy_unchecked(list, distance_km) ==
    [status |-> "ok", value |-> ScanFrom(list, distance_km, 1)]

\* ShippingStrategyFactory.get_strategy: the raised exception or the entry returned
get_strategy(list, distance_km) ==
    IF FLt(distance_km, FZero)
    THEN [status |-> "ValueError", value |-> <<"Distance cannot be negative", distance_km>>]
    ELSE [status |-> "ok", value |-> ScanFrom(list, distance_km, 1)]

(***************************************************************************)
(* Entities and stores.  A store is the dict of a repository, held as the  *)
(* sequence of its entities in insertion order.  Coordinates are the       *)
(* decimal literals of the seed data in units of 1/10000 degree.           *)
(***************************************************************************)
Location(lat, lng) == [lat |-> lat, lng |-> lng]

Warehouse(id, loc, name) == [warehouse_id |-> id, location |-> loc, name |-> name]
Seller(id, name, loc) == [seller_id |-> id, name |-> name, location |-> loc]
Customer(id, name, loc) == [customer_id |-> id, name |-> name, location |-> loc]
Product(id, name, price, weight_kg) ==
    [product_id |-> id, name |-> name, price |-> price, weight_kg |-> weight_kg]

\* seed_data: the warehouses, sellers, customers and products get_repositories adds
SeedWarehouses ==
    <<Warehouse(1, Location(190760, 728777), "Mumbai Central Warehouse"),
      Warehouse(2, Location(287041, 771025), "Delhi Distribution Center"),
      Warehouse(3, Location(129716, 775946), "Bangalore Logistics Hub"),
      Warehouse(4, Location(225726, 883639), "Kolkata Warehouse"),
      Warehouse(5, Location(130827, 802707), "Chennai Shipping Center")>>

SeedSellers ==
    <<Seller(1, "Sharma General Store", Location(191136, 728697)),
      Seller(2, "Kumar Kirana", Location(286139, 772090)),
      Seller(3, "Bangalore Mart", Location(129352, 776245)),
      Seller(4, "Southern Groceries", Location(130569, 802425)),
      Seller(5, "Eastern Provisions", Location(225958, 882636))>>

SeedCustomers ==
    <<Customer(1, "Rahul Verma", Location(185204, 738567)),
      Customer(2, "Priya Singh", Location(269124, 757873)),
      Customer(3, "Amit Patel", Location(230225, 725714)),
      Customer(4, "Deepa Nair", Location(99312, 762673)),
      Customer(5, "Suresh Reddy", Location(173850, 784867))>>

SeedProducts ==
    <<Product(1, "Rice (5kg Pack)", Dec(350, 1), Dec(5, 1)),
      Product(2, "Cooking Oil (5L)", Dec(650, 1), Dec(45, 10)),
      Product(3, "Wheat Flour (10kg)", Dec(450, 1), Dec(10, 1)),
      Product(4, "Sugar (2kg)", Dec(90, 1), Dec(2, 1)),
      Product(5, "Tea (500g Premium)", Dec(280, 1), Dec(5, 10))>>

\* BaseRepository.get_by_id: the entity stored under the id, or None
NoneValue == [none |-> TRUE]

RECURSIVE Lookup(_, _, _, _)
Lookup(store, key, id, i) ==
    IF i > Len(store) THEN NoneValue
    ELSE IF store[i][key] = id THEN store[i]
    ELSE Lookup(store, key, id, i + 1)

get_by_id(store, key, id) == Lookup(store, key, id, 1)

(***************************************************************************)
(* DistanceCalculator.calculate.  The haversine formula uses sin, cos,     *)
(* atan2 and sqrt of the platform's libm; its results (already rounded to  *)
(* two decimals, in 1/100 km) are tabulated here by running the source on  *)
(* every pair: row and column i are KnownLocs[i].  KnownLocs are the seed  *)
(* coordinates, then the four corners of the valid coordinate ranges, then *)
(* two points opposite each other on the globe.  Where the haversine term  *)
(* `a` comes out above 1, math.sqrt(1 - a) raises ValueError and the table *)
(* holds DomainError.                                                      *)
(***************************************************************************)
KnownLocs ==
    <<Location(190760, 728777), Location(287041, 771025), Location(129716, 775946),
      Location(225726, 883639), Location(130827, 802707), Location(191136, 728697),
      Location(286139, 772090), Location(129352, 776245), Location(130569, 802425),
      Location(225958, 882636), Location(185204, 738567), Location(269124, 757873),
      Location(230225, 725714), Location(99312, 762673), Location(173850, 784867),
      Location(900000, 1800000), Location(900000, -1800000),
      Location(-900000, 1800000), Location(-900000, -1800000),
      Location(869738, 335461), Location(-869738, -1464539)>>

DomainError == -1

HaversineCentiKm ==
    <<<<0, 115324, 84532, 165484, 103310, 426, 114809, 85050, 103269, 164521, 12015, 92074, 43998, 108019, 62146, 788639, 788639, 1212870, 1212870, 762741, 1238767>>,
      <<115324, 0, 175011, 131775, 176765, 114964, 1444, 175425, 176994, 130775, 117948, 23753, 77741, 208927, 126653, 681579, 681579, 1319929, 1319929, 657435, 1344074>>,
      <<84532, 175011, 0, 156070, 29017, 84916, 173980, 518, 28703, 155470, 73523, 156154, 123704, 36772, 49999, 856517, 856517, 1144992, 1144992, 832436, 1169072>>,
      <<165484, 131775, 156070, 0, 135836, 165448, 130383, 156124, 136250, 1062, 157538, 135777, 161886, 190642, 118188, 749758, 749758, 1251750, 1251750, 730626, 1270882>>,
      <<103310, 176765, 29017, 135836, 0, 103639, 175580, 28716, 419, 135369, 91436, 160710, 137181, 55949, 51524, 855281, 855281, 1146227, 1146227, 832330, 1169178>>,
      <<426, 114964, 84916, 165448, 103639, 0, 114452, 85433, 103600, 164484, 12305, 91704, 43575, 108440, 62348, 788221, 788221, 1213288, 1213288, 762320, 1239188>>,
      <<114809, 1444, 173980, 130383, 175580, 114452, 0, 174392, 175810, 129381, 117299, 23529, 77571, 207974, 125539, 682582, 682582, 1318926, 1318926, 658481, 1343028>>,
      <<85050, 175425, 518, 156124, 28716, 85433, 174392, 0, 28397, 155527, 74038, 156593, 124208, 36531, 50337, 856921, 856921, 1144587, 1144587, 832853, 1168656>>,
      <<103269, 176994, 28703, 136250, 419, 103600, 175810, 28397, 0, 135782, 91404, 160900, 137240, 55531, 51680, 855568, 855568, 1145940, 1145940, 832605, 1168904>>,
      <<164521, 130775, 155470, 1062, 135369, 164484, 129381, 155527, 135782, 0, 156601, 134730, 160838, 190107, 117395, 749501, 749501, 1252008, 1252008, 730320, 1271189>>,
      <<12015, 117948, 73523, 157538, 91436, 12305, 117299, 74038, 91404, 156601, 0, 95387, 51813, 98971, 50575, 794817, 794817, 1206692, 1206692, 769289, 1232220>>,
      <<92074, 23753, 156154, 135777, 160710, 91704, 23529, 156593, 160900, 134730, 95387, 0, 54047, 188890, 109515, 701502, 701502, 1300007, 1300007, 676804, 1324705>>,
      <<43998, 77741, 123704, 161886, 137181, 43575, 77571, 124208, 137240, 160838, 51813, 54047, 0, 150780, 87950, 744756, 744756, 1256753, 1256753, 718772, 1282737>>,
      <<108019, 208927, 36772, 190642, 55949, 108440, 207974, 36531, 55531, 190107, 98971, 188890, 150780, 0, 86276, 890324, 890324, 1111184, 1111184, 865681, 1135828>>,
      <<62146, 126653, 49999, 118188, 51524, 62348, 125539, 50337, 51680, 117395, 50575, 109515, 87950, 86276, 0, 807442, 807442, 1194067, 1194067, 783769, 1217739>>,
      <<788639, 681579, 856517, 749758, 855281, 788221, 682582, 856921, 855568, 749501, 794817, 701502, 744756, 890324, 807442, 0, 0, 2001509, 2001509, 33650, 1967859>>,
      <<788639, 681579, 856517, 749758, 855281, 788221, 682582, 856921, 855568, 749501, 794817, 701502, 744756, 890324, 807442, 0, 0, 2001509, 2001509, 33650, 1967859>>,
      <<1212870, 1319929, 1144992, 1251750, 1146227, 1213288, 1318926, 1144587, 1145940, 1252008, 1206692, 1300007, 1256753, 1111184, 1194067, 2001509, 2001509, 0, 0, 1967859, 33650>>,
      <<1212870, 1319929, 1144992, 1251750, 1146227, 1213288, 1318926, 1144587, 1145940, 1252008, 1206692, 1300007, 1256753, 1111184, 1194067, 2001509, 2001509, 0, 0, 1967859, 33650>>,
      <<762741, 657435, 832436, 730626, 832330, 762320, 658481, 832853, 832605, 730320, 769289, 676804, 718772, 865681, 783769, 33650, 33650, 1967859, 1967859, 0, -1>>,
      <<1238767, 1344074, 1169072, 1270882, 1169178, 1239188, 1343028, 1168656, 1168904, 1271189, 1232220, 1324705, 1282737, 1135828, 1217739, 1967859, 1967859, 33650, 33650, -1, 0>>>>

\* the table of a calculate whose term `a` multiplies cos(lat1) by itself
\* where the source multiplies cos(lat1) by cos(lat2)
HaversineCosLat1CentiKm ==
    <<<<0, 115940, 84078, 167320, 102408, 426, 115453, 84590, 102371, 166357, 12001, 92362, 44001, 107769, 61872, 1623780, 1623780, -1, -1, 889368, -1>>,
      <<114749, 0, 175004, 129328, 176463, 114387, 1444, 175417, 176697, 128361, 117601, 23696, 77118, 208907, 126589, 1305829, 1305829, -1, -1, 797180, -1>>,
      <<84998, 175020, 0, 158357, 29024, 85384, 173985, 518, 28708, 157730, 73823, 156259, 124372, 36741, 50019, 1760244, 1760244, -1, -1, 995324, -1>>,
      <<163670, 134304, 153872, 0, 134426, 163650, 132850, 153934, 134832, 1062, 155624, 137877, 162154, 187892, 116717, 1329309, 1329309, -1, -1, 955678, -1>>,
      <<104231, 177100, 29011, 137308, 0, 104566, 175893, 28707, 419, 136814, 92135, 161335, 138580, 55759, 51598, 1689881, 1689881, -1, -1, 1014081, -1>>,
      <<426, 115583, 84459, 167268, 102732, 0, 115098, 84971, 102696, 166304, 12290, 91993, 43578, 108189, 62068, 1622611, 1622611, -1, -1, 888864, -1>>,
      <<114209, 1445, 173976, 127995, 175297, 113850, 0, 174387, 175533, 127026, 116931, 23464, 76928, 207949, 125485, 1306982, 1306982, -1, -1, 798986, -1>>,
      <<85521, 175435, 518, 158405, 28724, 85908, 174398, 0, 28404, 157781, 74343, 156702, 124882, 36499, 50355, 1761059, 1761059, -1, -1, 995983, -1>>,
      <<104187, 177323, 28698, 137731, 419, 104523, 176117, 28390, 0, 137236, 92100, 161518, 138630, 55344, 51751, 1691418, 1691418, -1, -1, 1014180, -1>>,
      <<162708, 133269, 153298, 1061, 133985, 162686, 131814, 153363, 134390, 0, 154692, 136801, 161091, 187389, 115937, 1329911, 1329911, -1, -1, 954589, -1>>,
      <<12030, 118322, 73229, 159479, 90751, 12321, 117696, 73740, 90722, 158539, 0, 95517, 51865, 98844, 50423, 1626201, 1626201, -1, -1, 902401, -1>>,
      <<91802, 23812, 156057, 133719, 160135, 91431, 23594, 156494, 160333, 132699, 95265, 0, 53743, 188883, 109284, 1362457, 1362457, -1, -1, 811575, -1>>,
      <<43995, 78389, 123071, 161617, 135846, 43572, 78240, 123568, 135913, 160585, 51762, 54358, 0, 150444, 87176, 1503435, 1503435, -1, -1, 839685, -1>>,
      <<108278, 208949, 36802, 193533, 56140, 108701, 208003, 36563, 55719, 192966, 99103, 188897, 151140, 0, 86383, -1, -1, -1, -1, 1021921, -1>>,
      <<62422, 126722, 49980, 119690, 51452, 62630, 125598, 50319, 51610, 118884, 50728, 109761, 88745, 86173, 0, 1584900, 1584900, -1, -1, 948020, -1>>,
      <<788639, 681579, 856517, 749758, 855281, 788221, 682582, 856921, 855568, 749501, 794817, 701502, 744756, 890324, 807442, 0, 0, 2001509, 2001509, 33650, 1967859>>,
      <<788639, 681579, 856517, 749758, 855281, 788221, 682582, 856921, 855568, 749501, 794817, 701502, 744756, 890324, 807442, 0, 0, 2001509, 2001509, 33650, 1967859>>,
      <<1212870, 1319929, 1144992, 1251750, 1146227, 1213288, 1318926, 1144587, 1145940, 1252008, 1206692, 1300007, 1256753, 1111184, 1194067, 2001509, 2001509, 0, 0, 1967859, 33650>>,
      <<1212870, 1319929, 1144992, 1251750, 1146227, 1213288, 1318926, 1144587, 1145940, 1252008, 1206692, 1300007, 1256753, 1111184, 1194067, 2001509, 2001509, 0, 0, 1967859, 33650>>,
      <<755423, 648504, 823386, 716943, 822213, 755005, 649509, 823792, 822499, 716682, 761620, 668384, 711547, 857158, 774346, 72705, 72705, -1, -1, 0, -1>>,
      <<1182499, 1289682, 1114442, 1221073, 1115618, 1182918, 1288674, 1114036, 1115332, 1221334, 1176292, 1269740, 1226464, 1080638, 1163549, 1974026, 1974026, 38850, 38850, -1, 0>>>>

LocIndex(loc) == CHOOSE i \in 1..Len(KnownLocs) : KnownLocs[i] = loc

calculate(location1, location2) ==
    Dec(HaversineCentiKm[LocIndex(location1)][LocIndex(location2)], 100)

ValueError(message) == [status |-> "ValueError", value |-> message]

calculate_call_cos_lat1(location1, location2) ==
    IF HaversineCosLat1CentiKm[LocIndex(location1)][LocIndex(location2)] = DomainError
    THEN ValueError(<<"math domain error">>)
    ELSE [status |-> "ok",
          value |-> Dec(HaversineCosLat1CentiKm[LocIndex(location1)][LocIndex(location2)], 100)]

\* a call of calculate: the distance it returns or the ValueError it raises
calculate_call(location1, location2) ==
    IF HaversineCentiKm[LocIndex(location1)][LocIndex(location2)] = DomainError
    THEN ValueError(<<"math domain error">>)
    ELSE [status |-> "ok", value |-> calculate(location1, location2)]

\* a coordinate written with four decimals, as the float Python reads it
Degrees(units) == Dec(units, 10000)

CoordUnits ==
    { -1800001, -1800000, -900001, -900000, 900000, 900001, 1800000, 1800001 }

UnitsOf(degrees) == CHOOSE units \in CoordUnits : Degrees(units) = degrees

\* Location.__post_init__ with both range checks strict
Location_post_init_open(lat, lng) ==
    IF ~(FLt(Dec(-90, 1), lat) /\ FLt(lat, Dec(90, 1)))
    THEN ValueError(<<"Latitude must be between -90 and 90", lat>>)
    ELSE IF ~(FLt(Dec(-180, 1), lng) /\ FLt(lng, Dec(180, 1)))
    THEN ValueError(<<"Longitude must be between -180 and 180", lng>>)
    ELSE [status |-> "ok", value |-> Location(UnitsOf(lat), UnitsOf(lng))]

\* Location(lat=lat, lng=lng): the dataclass sets the fields and __post_init__
\* validates them; the instance exists only if no check raises
Location_post_init(lat, lng) ==
    IF ~(FLe(Dec(-90, 1), lat) /\ FLe(lat, Dec(90, 1)))
    THEN ValueError(<<"Latitude must be between -90 and 90", lat>>)
    ELSE IF ~(FLe(Dec(-180, 1), lng) /\ FLe(lng, Dec(180, 1)))
    THEN ValueError(<<"Longitude must be between -180 and 180", lng>>)
    ELSE [status |-> "ok", value |-> Location(UnitsOf(lat), UnitsOf(lng))]

calculate_between(location1, location2) ==
    IF location1.status # "ok" THEN location1
    ELSE IF location2.status # "ok" THEN location2
    ELSE calculate_call(location1.value, location2.value)

\* DistanceCalculator.calculate_from_coords
calculate_from_coords(lat1, lng1, lat2, lng2) ==
    calculate_between(Location_post_init(lat1, lng1), Location_post_init(lat2, lng2))

\* Product(product_id, name, price, weight_kg) and its __post_init__
Product_post_init(product_id, name, price, weight_kg) ==
    IF FLt(price, FZero)
    THEN ValueError(<<"Price cannot be negative", price>>)
    ELSE IF FLe(weight_kg, FZero)
    THEN ValueError(<<"Weight must be positive", weight_kg>>)
    ELSE [status |-> "ok", value |-> Product(product_id, name, price, weight_kg)]

(***************************************************************************)
(* ShippingChargeService.  A str is the sequence of its characters.        *)
(***************************************************************************)
STANDARD == <<"s", "t", "a", "n", "d", "a", "r", "d">>
EXPRESS == <<"e", "x", "p", "r", "e", "s", "s">>

UpperCase == <<"A", "B", "C", "D", "E", "F", "G", "H", "I", "J", "K", "L", "M",
               "N", "O", "P", "Q", "R", "S", "T", "U", "V", "W", "X", "Y", "Z">>
LowerCase == <<"a", "b", "c", "d", "e", "f", "g", "h", "i", "j", "k", "l", "m",
               "n", "o", "p", "q", "r", "s", "t", "u", "v", "w", "x", "y", "z">>

\* str.lower
LowerChar(c) ==
    IF \E i \in 1..Len(UpperCase) : UpperCase[i] = c
    THEN LowerCase[CHOOSE i \in 1..Len(UpperCase) : UpperCase[i] = c]
    ELSE c

Lower(str) == [i \in 1..Len(str) |-> LowerChar(str[i])]

BASE_COURIER_CHARGE == Dec(10, 1)
EXPRESS_EXTRA_PER_KG == Dec(12, 10)

\* ShippingChargeService._validate_delivery_speed
validate_delivery_speed(speed) ==
    IF Lower(speed) \in {STANDARD, EXPRESS}
    THEN [status |-> "ok", value |-> Lower(speed)]
    ELSE [status |-> "ValidationError", value |-> <<"Invalid delivery speed", speed>>]

\* ShippingChargeService._calculate_delivery_cost: the DeliveryCost returned
\* for the values of the locals base_charge and extra_charge
DeliveryCost(base_charge, extra_charge, speed) ==
    [base_charge |-> base_charge,
     extra_charge |-> Round2(extra_charge),
     total |-> Round2(FAdd(base_charge, extra_charge)),
     speed |-> speed]

\* _calculate_delivery_cost with the speed test inverted
calculate_delivery_cost_inverted(speed, weight_kg) ==
    DeliveryCost(BASE_COURIER_CHARGE,
                 IF speed # EXPRESS THEN FMul(EXPRESS_EXTRA_PER_KG, weight_kg) ELSE FZero,
                 speed)

calculate_delivery_cost(speed, weight_kg) ==
    DeliveryCost(BASE_COURIER_CHARGE,
                 IF speed = EXPRESS THEN FMul(EXPRESS_EXTRA_PER_KG, weight_kg) ELSE FZero,
                 speed)

NotFound(entity, id) ==
    [status |-> "NotFoundError", value |-> <<entity, "with ID", id, "not found">>]

\* a ShippingChargeResult whose charge leaves out the delivery cost
ShippingChargeResultTransportOnly(transport_result, delivery_cost, distance_km, weight_kg) ==
    [shipping_charge |-> Round2(transport_result.transport_cost),
     distance_km |-> distance_km,
     transport_mode |-> transport_result.transport_mode,
     transport_cost |-> transport_result.transport_cost,
     delivery_cost |-> delivery_cost,
     weight_kg |-> weight_kg]

\* ShippingChargeService.calculate_from_warehouse, from the end backwards.
\* The ShippingChargeResult built from transport_result and delivery_cost:
ShippingChargeResult(transport_result, delivery_cost, distance_km, weight_kg) ==
    [shipping_charge |->
         Round2(FAdd(transport_result.transport_cost, delivery_cost.total)),
     distance_km |-> distance_km,
     transport_mode |-> transport_result.transport_mode,
     transport_cost |-> transport_result.transport_cost,
     delivery_cost |-> delivery_cost,
     weight_kg |-> weight_kg]

\* ... once get_strategy has returned or raised (selected):
charge_with(selected, speed, distance_km, weight_kg) ==
    IF selected.status # "ok" THEN selected
    ELSE [status |-> "ok",
          value |-> ShippingChargeResult(
                        calculate_cost(selected.value.strategy, distance_km, weight_kg),
                        calculate_delivery_cost(speed, weight_kg),
                        distance_km, weight_kg)]

\* ... once the distance is known:
charge_at(list, speed, distance_km, weight_kg) ==
    charge_with(get_strategy(list, distance_km), speed, distance_km, weight_kg)

\* ... with the three lookups checked before the speed
charge_for_lookups_first(list, speed, warehouse, customer, product, warehouse_id, customer_id, product_id) ==
    IF warehouse = NoneValue THEN NotFound("Warehouse", warehouse_id)
    ELSE IF customer = NoneValue THEN NotFound("Customer", customer_id)
    ELSE IF product = NoneValue THEN NotFound("Product", product_id)
    ELSE IF speed.status # "ok" THEN speed
    ELSE charge_at(list, speed.value,
                   calculate(warehouse.location, customer.location), product.weight_kg)

\* ... with the customer checked before the warehouse
charge_for_customer_first(list, speed, warehouse, customer, product, warehouse_id, customer_id, product_id) ==
    IF speed.status # "ok" THEN speed
    ELSE IF customer = NoneValue THEN NotFound("Customer", customer_id)
    ELSE IF warehouse = NoneValue THEN NotFound("Warehouse", warehouse_id)
    ELSE IF product = NoneValue THEN NotFound("Product", product_id)
    ELSE charge_at(list, speed.value,
                   calculate(warehouse.location, customer.location), product.weight_kg)

\* ... once the speed is parsed and the three lookups are made:
charge_for(list, speed, warehouse, customer, product, warehouse_id, customer_id, product_id) ==
    IF speed.status # "ok" THEN speed
    ELSE IF warehouse = NoneValue THEN NotFound("Warehouse", warehouse_id)
    ELSE IF customer = NoneValue THEN NotFound("Customer", customer_id)
    ELSE IF product = NoneValue THEN NotFound("Product", product_id)
    ELSE charge_at(list, speed.value,
                   calculate(warehouse.location, customer.location), product.weight_kg)

calculate_from_warehouse(list, warehouses, customers, products, warehouse_id, customer_id, product_id, delivery_speed) ==
    charge_for(list, validate_delivery_speed(delivery_speed),
               get_by_id(warehouses, "warehouse_id", warehouse_id),
               get_by_id(customers, "customer_id", customer_id),
               get_by_id(products, "product_id", product_id),
               warehouse_id, customer_id, product_id)

(***************************************************************************)
(* BaseRepository: the operations that change a store or list it.          *)
(***************************************************************************)
RECURSIVE IndexOf(_, _, _, _)
IndexOf(store, key, id, i) ==
    IF i > Len(store) THEN 0
    ELSE IF store[i][key] = id THEN i
    ELSE IndexOf(store, key, id, i + 1)

\* self._store[entity_id] = entity that takes an existing key out first, so
\* that the key goes last
PutAtEnd(store, entity, i) ==
    IF i = 0 THEN Append(store, entity)
    ELSE Append(SubSeq(store, 1, i - 1) \o SubSeq(store, i + 1, Len(store)), entity)

\* self._store[entity_id] = entity at position i of the dict (0: a new key,
\* which goes last; an existing key keeps its position)
PutAt(store, entity, i) ==
    IF i = 0 THEN Append(store, entity)
    ELSE [store EXCEPT ![i] = entity]

\* BaseRepository.add
add(store, key, entity) == PutAt(store, entity, IndexOf(store, key, entity[key], 1))

\* del self._store[entity_id] at position i of the dict (0: not a key)
RemoveAt(store, i) ==
    IF i = 0 THEN store
    ELSE SubSeq(store, 1, i - 1) \o SubSeq(store, i + 1, Len(store))

\* BaseRepository.delete
delete(store, key, id) == RemoveAt(store, IndexOf(store, key, id, 1))

\* BaseRepository.update: the store, and what the call returns
update(store, key, entity) ==
    IF IndexOf(store, key, entity[key], 1) = 0 THEN store
    ELSE PutAt(store, entity, IndexOf(store, key, entity[key], 1))

updated(store, key, entity) ==
    IF IndexOf(store, key, entity[key], 1) = 0 THEN NoneValue ELSE entity

\* BaseRepository.clear
clear(store) == <<>>

\* BaseRepository.get_all
get_all(store) == store

(***************************************************************************)
(* WarehouseService.find_nearest_warehouse.                                *)
(***************************************************************************)
RECURSIVE NearestFrom(_, _, _, _, _)

\* the body of the loop with a warehouse that wins also when it only ties
NearestStepLastWins(seller, warehouses, i, nearest, min_distance, distance) ==
    IF FLe(distance, min_distance)
    THEN NearestFrom(seller, warehouses, i + 1, warehouses[i], distance)
    ELSE NearestFrom(seller, warehouses, i + 1, nearest, min_distance)

\* the body of the loop for warehouses[i], at the distance computed for it
NearestStep(seller, warehouses, i, nearest, min_distance, distance) ==
    IF FLt(distance, min_distance)
    THEN NearestFrom(seller, warehouses, i + 1, warehouses[i], distance)
    ELSE NearestFrom(seller, warehouses, i + 1, nearest, min_distance)

\* the loop over get_all() from position i on; the pair returned at its end
NearestFrom(seller, warehouses, i, nearest, min_distance) ==
    IF i > Len(warehouses) THEN <<nearest, min_distance>>
    ELSE NearestStep(seller, warehouses, i, nearest, min_distance,
                     calculate(seller.location, warehouses[i].location))

NoWarehouses ==
    [status |-> "NotFoundError", value |-> <<"No warehouses available in the system">>]

\* find_nearest_warehouse once the warehouses are listed before the seller is
\* looked at
nearest_for_warehouses_first(seller, warehouses, seller_id) ==
    IF warehouses = <<>> THEN NoWarehouses
    ELSE IF seller = NoneValue THEN NotFound("Seller", seller_id)
    ELSE [status |-> "ok",
          value |-> NearestFrom(seller, warehouses, 1, NoneValue, FInf)]

\* find_nearest_warehouse once the seller is looked up and the warehouses listed
nearest_for(seller, warehouses, seller_id) ==
    IF seller = NoneValue THEN NotFound("Seller", seller_id)
    ELSE IF warehouses = <<>> THEN NoWarehouses
    ELSE [status |-> "ok",
          value |-> NearestFrom(seller, warehouses, 1, NoneValue, FInf)]

find_nearest_warehouse(sellers, warehouses, seller_id) ==
    nearest_for(get_by_id(sellers, "seller_id", seller_id), get_all(warehouses), seller_id)

(***************************************************************************)
(* ShippingChargeService.calculate_total, from the end backwards.          *)
(***************************************************************************)
TotalShippingResult(nearest_warehouse, shipping_result) ==
    [shipping_charge |-> shipping_result.shipping_charge,
     nearest_warehouse |-> nearest_warehouse,
     distance_km |-> shipping_result.distance_km,
     breakdown |-> shipping_result]

\* ... once calculate_from_warehouse has returned or raised (shipping_result):
total_with(nearest_warehouse, shipping_result) ==
    IF shipping_result.status # "ok" THEN shipping_result
    ELSE [status |-> "ok",
          value |-> TotalShippingResult(nearest_warehouse, shipping_result.value)]

\* ... pricing from the first warehouse listed, whatever the search found
total_from_first_listed(found, list, warehouses, customers, products, customer_id, product_id, delivery_speed) ==
    IF found.status # "ok" THEN found
    ELSE total_with(found.value[1],
                    calculate_from_warehouse(list, warehouses, customers, products,
                        warehouses[1].warehouse_id, customer_id, product_id,
                        delivery_speed))

\* a result whose top-level distance is the one measured from the seller
WithDistance(priced, distance) ==
    IF priced.status # "ok" THEN priced
    ELSE [status |-> "ok",
          value |-> [shipping_charge |-> priced.value.shipping_charge,
                     nearest_warehouse |-> priced.value.nearest_warehouse,
                     distance_km |-> distance,
                     breakdown |-> priced.value.breakdown]]

\* ... reporting the distance found during the search
total_from_selection_distance(found, list, warehouses, customers, products, customer_id, product_id, delivery_speed) ==
    IF found.status # "ok" THEN found
    ELSE WithDistance(total_with(found.value[1],
                          calculate_from_warehouse(list, warehouses, customers, products,
                              found.value[1].warehouse_id, customer_id, product_id,
                              delivery_speed)),
                      found.value[2])

\* ... once find_nearest_warehouse has returned or raised (found):
total_from(found, list, warehouses, customers, products, customer_id, product_id, delivery_speed) ==
    IF found.status # "ok" THEN found
    ELSE total_with(found.value[1],
                    calculate_from_warehouse(list, warehouses, customers, products,
                        found.value[1].warehouse_id, customer_id, product_id,
                        delivery_speed))

\* calculate_total that searches for the warehouse before it looks the product up
calculate_total_search_first(list, warehouses, sellers, customers, products, seller_id, customer_id, product_id, delivery_speed) ==
    IF find_nearest_warehouse(sellers, warehouses, seller_id).status # "ok"
    THEN find_nearest_warehouse(sellers, warehouses, seller_id)
    ELSE IF get_by_id(products, "product_id", product_id) = NoneValue
    THEN NotFound("Product", product_id)
    ELSE total_from(find_nearest_warehouse(sellers, warehouses, seller_id),
                    list, warehouses, customers, products,
                    customer_id, product_id, delivery_speed)

\* calculate_total that validates the delivery speed before any lookup
calculate_total_speed_first(list, warehouses, sellers, customers, products, seller_id, customer_id, product_id, delivery_speed) ==
    IF validate_delivery_speed(delivery_speed).status # "ok"
    THEN validate_delivery_speed(delivery_speed)
    ELSE IF get_by_id(products, "product_id", product_id) = NoneValue
    THEN NotFound("Product", product_id)
    ELSE total_from(find_nearest_warehouse(sellers, warehouses, seller_id),
                    list, warehouses, customers, products,
                    customer_id, product_id, delivery_speed)

calculate_total(list, warehouses, sellers, customers, products, seller_id, customer_id, product_id, delivery_speed) ==
    IF get_by_id(products, "product_id", product_id) = NoneValue
    THEN NotFound("Product", product_id)
    ELSE total_from(find_nearest_warehouse(sellers, warehouses, seller_id),
                    list, warehouses, customers, products,
                    customer_id, product_id, delivery_speed)

(***************************************************************************)
(* dependencies.py and seed_data.  A Repositories instance holds the four  *)
(* stores; a Services instance is bound to the repositories of one         *)
(* Repositories instance.                                                  *)
(***************************************************************************)
EmptyRepositories ==
    [class |-> "Repositories", customer |-> <<>>, seller |-> <<>>,
     product |-> <<>>, warehouse |-> <<>>]

\* the add calls seed_data makes
SeedSteps == Len(SeedWarehouses) + Len(SeedSellers) + Len(SeedCustomers) + Len(SeedProducts)

\* the k-th add call of seed_data
seed_add(repositories, k) ==
    IF k <= 5
    THEN [repositories EXCEPT !.warehouse = add(@, "warehouse_id", SeedWarehouses[k])]
    ELSE IF k <= 10
    THEN [repositories EXCEPT !.seller = add(@, "seller_id", SeedSellers[k - 5])]
    ELSE IF k <= 15
    THEN [repositories EXCEPT !.customer = add(@, "customer_id", SeedCustomers[k - 10])]
    ELSE [repositories EXCEPT !.product = add(@, "product_id", SeedProducts[k - 15])]

RECURSIVE seed_from(_, _)
seed_from(repositories, k) ==
    IF k > SeedSteps THEN repositories
    ELSE seed_from(seed_add(repositories, k), k + 1)

\* seed_data
seed_data(repositories) == seed_from(repositories, 1)

\* get_repositories called with no other call under way: the globals and the
\* heap after it; it returns the global
get_repositories(singleton, objects) ==
    IF singleton = 0
    THEN [_repositories |-> Len(objects) + 1,
          heap |-> Append(objects, seed_data(EmptyRepositories))]
    ELSE [_repositories |-> singleton, heap |-> objects]

\* Services(...) over the repositories of the instance repos
Services(repos) == [class |-> "Services", repos |-> repos]

\* the rest of get_services once get_repositories has returned
services_over(got) ==
    [_repositories |-> got._repositories,
     _services |-> Len(got.heap) + 1,
     heap |-> Append(got.heap, Services(got._repositories))]

\* get_services called with no other call under way
get_services(repositories, services, objects) ==
    IF services = 0
    THEN services_over(get_repositories(repositories, objects))
    ELSE [_repositories |-> repositories, _services |-> services, heap |-> objects]

\* a thread's locals inside get_repositories and after it
Waiting == [pc |-> "call", target |-> 0, step |-> 0, result |-> 0, seen |-> <<>>]

(***************************************************************************)
(* The HTTP layer: main.py registers one handler per exception class and   *)
(* the framework answers a raised exception with the handler of the first  *)
(* class in the exception's method resolution order that has one.          *)
(***************************************************************************)
\* exceptions.py: the classes of an exception, most specific first
Mro(class) ==
    IF class \in {"NotFoundError", "ValidationError"}
    THEN <<class, "ShippingError", "Exception">>
    ELSE IF class = "Exception" THEN <<"Exception">>
    ELSE <<class, "Exception">>

\* exc.status_code as the constructors of exceptions.py set it
status_code(class) ==
    IF class = "NotFoundError" THEN 404
    ELSE IF class = "ValidationError" THEN 400
    ELSE 500

HandledClasses == {"NotFoundError", "ValidationError", "ShippingError", "Exception"}

\* a lookup that tries the most general class first
lookup_exception_handler_base_first(mro, i) ==
    mro[Len(mro)]

RECURSIVE lookup_exception_handler(_, _)
lookup_exception_handler(mro, i) ==
    IF mro[i] \in HandledClasses THEN mro[i]
    ELSE lookup_exception_handler(mro, i + 1)

\* not_found_handler, validation_error_handler, shipping_error_handler and
\* general_exception_handler: the status of the JSONResponse each returns
handler_status(handler, class) ==
    IF handler = "NotFoundError" THEN 404
    ELSE IF handler = "ValidationError" THEN 400
    ELSE IF handler = "ShippingError" THEN status_code(class)
    ELSE 500

\* the response to a request whose route function had this outcome
response(outcome) ==
    IF outcome.status = "ok"
    THEN [status |-> "ok", value |-> [status_code |-> 200, body |-> outcome.value]]
    ELSE [status |-> outcome.status,
          value |-> [status_code |->
                        handler_status(lookup_exception_handler(Mro(outcome.status), 1),
                                       outcome.status),
                     body |-> outcome.value]]

\* Query(..., ge=1): a request with an id below 1 is answered 422 by the
\* framework before the route function runs
RequestValidationError ==
    [status |-> "RequestValidationError",
     value |-> [status_code |-> 422, body |-> <<"greater_than_equal">>]]

(***************************************************************************)
(* State.                                                                  *)
(*   strategies       ShippingStrategyFactory._strategies                  *)
(*   registered       how many register_strategy calls have been made      *)
(*   warehouse_store, customer_store, product_store, seller_store          *)
(*                    the repositories' dicts                              *)
(*   ret              the call that has just completed: its operation, its *)
(*                    arguments, and the value returned or exception       *)
(*                    raised; Idle between calls                           *)
(*   edits            how many add, delete and clear calls have been made  *)
(*                    on the repositories after seeding                    *)
(*   kept             an earlier pricing call and its outcome, which its   *)
(*                    caller has kept; Idle when none is kept              *)
(*   _repositories, _services                                              *)
(*                    the module globals of dependencies.py: the id of the *)
(*                    instance, 0 for None                                 *)
(*   heap             the Repositories and Services instances built so far;*)
(*                    the id of an instance is its position                *)
(*   threads          per thread inside get_repositories: the line it is   *)
(*                    at and its locals                                    *)
(*   resets           how many reset_dependencies calls have been made     *)
(***************************************************************************)
VARIABLES strategies, registered, warehouse_store, customer_store,
          product_store, seller_store, ret, edits, kept,
          _repositories, _services, heap, threads, resets

vars == <<strategies, registered, warehouse_store, customer_store,
          product_store, seller_store, ret, edits, kept,
          _repositories, _services, heap, threads, resets>>

container == <<_repositories, _services, heap, threads, resets>>

engine == <<strategies, registered, warehouse_store, customer_store,
            product_store, seller_store, edits, kept>>

stores == <<warehouse_store, customer_store, product_store, seller_store>>

Idle == [op |-> "idle", args |-> <<>>, status |-> "idle", value |-> <<>>]

Completed(op, args, outcome) ==
    [op |-> op, args |-> args, status |-> outcome.status, value |-> outcome.value]

\* ---- inputs the operations are called with ----
MaxCustom == 2

CustomStrategies ==
    { [mode_name |-> "Drone", min_distance |-> Dec(0, 1),
       max_distance |-> Dec(200, 1), rate_per_km_per_kg |-> Dec(5, 1)],
      [mode_name |-> "Bike", min_distance |-> Dec(50, 1),
       max_distance |-> Dec(150, 1), rate_per_km_per_kg |-> Dec(4, 1)],
      [mode_name |-> "Rail", min_distance |-> Dec(500, 1),
       max_distance |-> Dec(800, 1), rate_per_km_per_kg |-> Dec(15, 10)],
      [mode_name |-> "Ship", min_distance |-> Dec(1000, 1),
       max_distance |-> FInf, rate_per_km_per_kg |-> Dec(5, 10)] }

Distances ==
    { Dec(-10, 1), Dec(-1, 100), Dec(0, 1), Dec(50, 1), Dec(9999, 100),
      Dec(100, 1), Dec(120, 1), Dec(49999, 100), Dec(500, 1), Dec(900, 1),
      Dec(1000, 1), FInf, FNaN }

CostDistances ==
    { Dec(0, 1), Dec(50, 1), Dec(51, 1), Dec(200, 1), Dec(1000, 1), Dec(12345, 100) }

Weights ==
    { Dec(125, 10000), Dec(1, 1000), Dec(5, 10), Dec(2, 1), Dec(3, 1),
      Dec(5, 1), Dec(10, 1), Dec(4375, 1000) }

SpeedStrings ==
    { STANDARD, EXPRESS, <<"E", "x", "p", "r", "e", "s", "s">>,
      <<"S", "T", "A", "N", "D", "A", "R", "D">>,
      <<"o", "v", "e", "r", "n", "i", "g", "h", "t">>, <<>> }

Ids == 1..6

\* ---- inputs of the calls made on repositories that are edited after seeding ----
MaxEdits == 2

\* warehouse 1 moved to the coordinates of warehouse 2
NewWarehouses == { Warehouse(1, Location(287041, 771025), "Mumbai Central Warehouse") }

\* a product of one gram
NewProducts == { Product(6, "Saffron (1g)", Dec(500, 1), Dec(1, 1000)) }

DeletedIds == {1}

\* warehouse 1 renamed, warehouse 5 moved to the coordinates of warehouse 3,
\* and a warehouse 6 that was never added
UpdatedWarehouses ==
    { Warehouse(1, Location(190760, 728777), "Mumbai West Warehouse"),
      Warehouse(5, Location(129716, 775946), "Chennai Shipping Center"),
      Warehouse(6, Location(185204, 738567), "Pune Warehouse") }

SellerIds == {1, 2, 6}
WarehouseIds == {1, 2}
CustomerIds == {1, 6}
ProductIds == {1, 6}

Speeds ==
    { STANDARD, <<"E", "x", "p", "r", "e", "s", "s">>,
      <<"o", "v", "e", "r", "n", "i", "g", "h", "t">> }

PricingOps == {"calculate_from_warehouse", "calculate_total"}

\* ---- callers of the dependency functions ----
Threads == {"t1", "t2"}

MaxResets == 2

\* ---- ids in the query strings and request bodies of the HTTP requests ----
QueryIds == {0, 1, 6}

\* ---- inputs of the entity constructors and of the distance calculator ----
LatInputs ==
    { Degrees(-900001), Degrees(-900000), Degrees(900000), Degrees(900001), FInf, FNaN }

LngInputs ==
    { Degrees(-1800001), Degrees(-1800000), Degrees(1800000), Degrees(1800001),
      FInf, FNaN }

PriceInputs == { Dec(-1, 100), FZero, Dec(500, 1), FNaN }

WeightInputs == { Dec(-1, 1000), FZero, Dec(1, 1000), FInf, FNaN }

Init ==
    /\ strategies = DefaultStrategies
    /\ registered = 0
    /\ warehouse_store = SeedWarehouses
    /\ customer_store = SeedCustomers
    /\ product_store = SeedProducts
    /\ seller_store = SeedSellers
    /\ ret = Idle
    /\ edits = 0
    /\ kept = Idle
    /\ _repositories = 0
    /\ _services = 0
    /\ heap = <<>>
    /\ threads = [t \in Threads |-> Waiting]
    /\ resets = 0

\* ShippingStrategyFactory.register_strategy
RegisterStrategy ==
    /\ ret = Idle
    /\ registered < MaxCustom
    /\ \E s \in CustomStrategies :
          /\ strategies' = SortByMin(Append(strategies, Entry(s, Len(strategies) + 1)))
          /\ ret' = Completed("register_strategy", <<s>>,
                              [status |-> "ok", value |-> NoneValue])
    /\ registered' = registered + 1
    /\ UNCHANGED container
    /\ UNCHANGED <<stores, edits, kept>>

\* ShippingStrategyFactory.get_strategy
GetStrategy ==
    /\ ret = Idle
    /\ \E d \in Distances :
          ret' = Completed("get_strategy", <<d>>, get_strategy(strategies, d))
    /\ UNCHANGED container
    /\ UNCHANGED <<strategies, registered, stores, edits, kept>>

\* ShippingStrategy.is_applicable, asked of every strategy of the factory in
\* list order (get_all_strategies, then is_applicable on each)
IsApplicable ==
    /\ ret = Idle
    /\ \E d \in Distances :
          ret' = Completed("is_applicable", <<d>>,
                           [status |-> "ok",
                            value |-> [i \in 1..Len(strategies) |->
                                          is_applicable(strategies[i].strategy, d)]])
    /\ UNCHANGED container
    /\ UNCHANGED <<strategies, registered, stores, edits, kept>>

\* ShippingStrategy.calculate_cost on a strategy object
CalculateCost ==
    /\ ret = Idle
    /\ \E s \in {MiniVanStrategy, TruckStrategy, AeroplaneStrategy} \cup CustomStrategies,
          d \in CostDistances, w \in Weights :
          ret' = Completed("calculate_cost", <<s, d, w>>,
                           [status |-> "ok", value |-> calculate_cost(s, d, w)])
    /\ UNCHANGED container
    /\ UNCHANGED <<strategies, registered, stores, edits, kept>>

\* ShippingChargeService._calculate_delivery_cost
CalculateDeliveryCost ==
    /\ ret = Idle
    /\ \E speed \in {STANDARD, EXPRESS}, w \in Weights :
          ret' = Completed("_calculate_delivery_cost", <<speed, w>>,
                           [status |-> "ok", value |-> calculate_delivery_cost(speed, w)])
    /\ UNCHANGED container
    /\ UNCHANGED <<strategies, registered, stores, edits, kept>>

\* ShippingChargeService.calculate_from_warehouse
CalculateFromWarehouse ==
    /\ ret = Idle
    /\ \E wid \in Ids, cid \in Ids, pid \in Ids, speed \in SpeedStrings :
          ret' = Completed("calculate_from_warehouse", <<wid, cid, pid, speed>>,
                           calculate_from_warehouse(strategies, warehouse_store,
                               customer_store, product_store, wid, cid, pid, speed))
    /\ UNCHANGED container
    /\ UNCHANGED <<strategies, registered, stores, edits, kept>>

\* WarehouseRepository.add
AddWarehouse ==
    /\ ret = Idle
    /\ edits < MaxEdits
    /\ \E w \in NewWarehouses :
          /\ warehouse_store' = add(warehouse_store, "warehouse_id", w)
          /\ ret' = Completed("add", <<w>>, [status |-> "ok", value |-> w])
    /\ edits' = edits + 1
    /\ kept' = Idle
    /\ UNCHANGED container
    /\ UNCHANGED <<strategies, registered, customer_store, product_store, seller_store>>

\* WarehouseRepository.update
UpdateWarehouse ==
    /\ ret = Idle
    /\ edits < MaxEdits
    /\ \E w \in UpdatedWarehouses :
          /\ warehouse_store' = update(warehouse_store, "warehouse_id", w)
          /\ ret' = Completed("update", <<w>>,
                       [status |-> "ok",
                        value |-> updated(warehouse_store, "warehouse_id", w)])
    /\ edits' = edits + 1
    /\ kept' = Idle
    /\ UNCHANGED container
    /\ UNCHANGED <<strategies, registered, customer_store, product_store, seller_store>>

\* WarehouseRepository.get_all
GetAllWarehouses ==
    /\ ret = Idle
    /\ ret' = Completed("get_all", <<>>,
                  [status |-> "ok", value |-> get_all(warehouse_store)])
    /\ UNCHANGED container
    /\ UNCHANGED <<strategies, registered, stores, edits, kept>>

\* WarehouseRepository.delete
DeleteWarehouse ==
    /\ ret = Idle
    /\ edits < MaxEdits
    /\ \E id \in DeletedIds :
          /\ warehouse_store' = delete(warehouse_store, "warehouse_id", id)
          /\ ret' = Completed("delete", <<id>>,
                       [status |-> "ok",
                        value |-> IndexOf(warehouse_store, "warehouse_id", id, 1) # 0])
    /\ edits' = edits + 1
    /\ kept' = Idle
    /\ UNCHANGED container
    /\ UNCHANGED <<strategies, registered, customer_store, product_store, seller_store>>

\* WarehouseRepository.clear
ClearWarehouses ==
    /\ ret = Idle
    /\ edits < MaxEdits
    /\ warehouse_store' = clear(warehouse_store)
    /\ ret' = Completed("clear", <<>>, [status |-> "ok", value |-> NoneValue])
    /\ edits' = edits + 1
    /\ kept' = Idle
    /\ UNCHANGED container
    /\ UNCHANGED <<strategies, registered, customer_store, product_store, seller_store>>

\* ProductRepository.add
AddProduct ==
    /\ ret = Idle
    /\ edits < MaxEdits
    /\ \E p \in NewProducts :
          /\ product_store' = add(product_store, "product_id", p)
          /\ ret' = Completed("add", <<p>>, [status |-> "ok", value |-> p])
    /\ edits' = edits + 1
    /\ kept' = Idle
    /\ UNCHANGED container
    /\ UNCHANGED <<strategies, registered, warehouse_store, customer_store, seller_store>>

\* find_nearest_warehouse that takes the seller out of the repository (pop)
FindNearestWarehousePopping ==
    /\ ret = Idle
    /\ \E sid \in SellerIds :
          /\ ret' = Completed("find_nearest_warehouse", <<sid>>,
                       find_nearest_warehouse(seller_store, warehouse_store, sid))
          /\ seller_store' = delete(seller_store, "seller_id", sid)
    /\ UNCHANGED container
    /\ UNCHANGED <<strategies, registered, warehouse_store, customer_store,
                   product_store, edits, kept>>

\* WarehouseService.find_nearest_warehouse
FindNearestWarehouse ==
    /\ ret = Idle
    /\ \E sid \in SellerIds :
          ret' = Completed("find_nearest_warehouse", <<sid>>,
                    find_nearest_warehouse(seller_store, warehouse_store, sid))
    /\ UNCHANGED container
    /\ UNCHANGED <<strategies, registered, stores, edits, kept>>

\* calculate_from_warehouse on the repositories as edited, for the ids the
\* edits touch
CalculateFromWarehouseEdited ==
    /\ ret = Idle
    /\ \E wid \in WarehouseIds, cid \in CustomerIds, pid \in ProductIds, speed \in Speeds :
          ret' = Completed("calculate_from_warehouse", <<wid, cid, pid, speed>>,
                           calculate_from_warehouse(strategies, warehouse_store,
                               customer_store, product_store, wid, cid, pid, speed))
    /\ UNCHANGED container
    /\ UNCHANGED <<strategies, registered, stores, edits, kept>>

\* calculate_total that takes the product out of the repository (pop)
CalculateTotalPopping ==
    /\ ret = Idle
    /\ \E sid \in SellerIds, cid \in CustomerIds, pid \in ProductIds, speed \in Speeds :
          /\ ret' = Completed("calculate_total", <<sid, cid, pid, speed>>,
                        calculate_total(strategies, warehouse_store, seller_store,
                            customer_store, product_store, sid, cid, pid, speed))
          /\ product_store' = delete(product_store, "product_id", pid)
    /\ UNCHANGED container
    /\ UNCHANGED <<strategies, registered, warehouse_store, customer_store,
                   seller_store, edits, kept>>

\* ShippingChargeService.calculate_total
CalculateTotal ==
    /\ ret = Idle
    /\ \E sid \in SellerIds, cid \in CustomerIds, pid \in ProductIds, speed \in Speeds :
          ret' = Completed("calculate_total", <<sid, cid, pid, speed>>,
                    calculate_total(strategies, warehouse_store, seller_store,
                        customer_store, product_store, sid, cid, pid, speed))
    /\ UNCHANGED container
    /\ UNCHANGED <<strategies, registered, stores, edits, kept>>

\* DistanceCalculator.calculate
Calculate ==
    /\ ret = Idle
    /\ \E i \in 1..Len(KnownLocs), j \in 1..Len(KnownLocs) :
          ret' = Completed("calculate", <<KnownLocs[i], KnownLocs[j]>>,
                           calculate_call(KnownLocs[i], KnownLocs[j]))
    /\ UNCHANGED container
    /\ UNCHANGED <<strategies, registered, stores, edits, kept>>

\* DistanceCalculator.calculate_from_coords
CalculateFromCoords ==
    /\ ret = Idle
    /\ \E lat1 \in LatInputs, lng1 \in LngInputs, lat2 \in LatInputs, lng2 \in LngInputs :
          ret' = Completed("calculate_from_coords", <<lat1, lng1, lat2, lng2>>,
                           calculate_from_coords(lat1, lng1, lat2, lng2))
    /\ UNCHANGED container
    /\ UNCHANGED <<strategies, registered, stores, edits, kept>>

\* Location(lat, lng)
ConstructLocation ==
    /\ ret = Idle
    /\ \E lat \in LatInputs, lng \in LngInputs :
          ret' = Completed("Location", <<lat, lng>>, Location_post_init(lat, lng))
    /\ UNCHANGED container
    /\ UNCHANGED <<strategies, registered, stores, edits, kept>>

\* Product(product_id, name, price, weight_kg)
ConstructProduct ==
    /\ ret = Idle
    /\ \E price \in PriceInputs, weight_kg \in WeightInputs :
          ret' = Completed("Product", <<6, "Saffron (1g)", price, weight_kg>>,
                           Product_post_init(6, "Saffron (1g)", price, weight_kg))
    /\ UNCHANGED container
    /\ UNCHANGED <<strategies, registered, stores, edits, kept>>

\* ProductRepository.add of the product just constructed
StoreProduct ==
    /\ ret.op = "Product"
    /\ ret.status = "ok"
    /\ edits < MaxEdits
    /\ product_store' = add(product_store, "product_id", ret.value)
    /\ ret' = Completed("add", <<ret.value>>, [status |-> "ok", value |-> ret.value])
    /\ edits' = edits + 1
    /\ kept' = Idle
    /\ UNCHANGED container
    /\ UNCHANGED <<strategies, registered, warehouse_store, customer_store, seller_store>>

\* GET /api/v1/shipping-charge
GetShippingCharge ==
    /\ ret = Idle
    /\ \E wid \in QueryIds, cid \in CustomerIds, pid \in ProductIds, speed \in Speeds :
          ret' = Completed("get_shipping_charge", <<wid, cid, pid, speed>>,
                    IF wid < 1 \/ cid < 1 \/ pid < 1 THEN RequestValidationError
                    ELSE response(calculate_from_warehouse(strategies, warehouse_store,
                             customer_store, product_store, wid, cid, pid, speed)))
    /\ UNCHANGED container
    /\ UNCHANGED <<strategies, registered, stores, edits, kept>>

\* POST /api/v1/shipping-charge/calculate
CalculateTotalShipping ==
    /\ ret = Idle
    /\ \E sid \in QueryIds, cid \in CustomerIds, pid \in ProductIds, speed \in Speeds :
          ret' = Completed("calculate_total_shipping", <<sid, cid, pid, speed>>,
                    response(calculate_total(strategies, warehouse_store, seller_store,
                        customer_store, product_store, sid, cid, pid, speed)))
    /\ UNCHANGED container
    /\ UNCHANGED <<strategies, registered, stores, edits, kept>>

\* GET /api/v1/warehouse/nearest
GetNearestWarehouse ==
    /\ ret = Idle
    /\ \E sid \in QueryIds, pid \in QueryIds :
          ret' = Completed("get_nearest_warehouse", <<sid, pid>>,
                    IF sid < 1 \/ pid < 1 THEN RequestValidationError
                    ELSE response(find_nearest_warehouse(seller_store, warehouse_store, sid)))
    /\ UNCHANGED container
    /\ UNCHANGED <<strategies, registered, stores, edits, kept>>

\* the caller of a pricing call keeps its outcome while further calls are made
Keep ==
    /\ ret.op \in PricingOps
    /\ kept = Idle
    /\ kept' = ret
    /\ ret' = Idle
    /\ UNCHANGED container
    /\ UNCHANGED <<strategies, registered, stores, edits>>

Return ==
    /\ ret # Idle
    /\ ret' = Idle
    /\ UNCHANGED container
    /\ UNCHANGED <<strategies, registered, stores, edits, kept>>

\* ---- dependencies.py, one call at a time ----
\* get_repositories()
GetRepositories ==
    /\ ret = Idle
    /\ _repositories' = get_repositories(_repositories, heap)._repositories
    /\ heap' = get_repositories(_repositories, heap).heap
    /\ ret' = Completed("get_repositories", <<>>,
                  [status |-> "ok",
                   value |-> get_repositories(_repositories, heap)._repositories])
    /\ UNCHANGED <<engine, _services, threads, resets>>

\* get_services()
GetServices ==
    /\ ret = Idle
    /\ _repositories' = get_services(_repositories, _services, heap)._repositories
    /\ _services' = get_services(_repositories, _services, heap)._services
    /\ heap' = get_services(_repositories, _services, heap).heap
    /\ ret' = Completed("get_services", <<>>,
                  [status |-> "ok",
                   value |-> get_services(_repositories, _services, heap)._services])
    /\ UNCHANGED <<engine, threads, resets>>

\* reset_dependencies() that forgets the repositories only
ResetDependenciesRepositoriesOnly ==
    /\ ret = Idle
    /\ resets < MaxResets
    /\ _repositories' = 0
    /\ resets' = resets + 1
    /\ ret' = Completed("reset_dependencies", <<>>, [status |-> "ok", value |-> NoneValue])
    /\ UNCHANGED <<engine, _services, heap, threads>>

\* reset_dependencies()
ResetDependencies ==
    /\ ret = Idle
    /\ resets < MaxResets
    /\ _repositories' = 0
    /\ _services' = 0
    /\ resets' = resets + 1
    /\ ret' = Completed("reset_dependencies", <<>>, [status |-> "ok", value |-> NoneValue])
    /\ UNCHANGED <<engine, heap, threads>>

\* get_repositories().warehouse.delete(id)
DeleteFromSingleton ==
    /\ ret = Idle
    /\ _repositories' = get_repositories(_repositories, heap)._repositories
    /\ \E id \in DeletedIds :
          /\ heap' = [get_repositories(_repositories, heap).heap EXCEPT
                         ![_repositories'].warehouse = delete(@, "warehouse_id", id)]
          /\ ret' = Completed("delete", <<id>>,
                [status |-> "ok",
                 value |-> heap'[_repositories'].warehouse
                              # get_repositories(_repositories, heap).heap[_repositories'].warehouse])
    /\ UNCHANGED <<engine, _services, threads, resets>>

\* get_services().warehouse.find_nearest_warehouse(seller_id)
NearestFromSingleton ==
    /\ ret = Idle
    /\ _repositories' = get_services(_repositories, _services, heap)._repositories
    /\ _services' = get_services(_repositories, _services, heap)._services
    /\ heap' = get_services(_repositories, _services, heap).heap
    /\ \E sid \in SellerIds :
          ret' = Completed("find_nearest_warehouse", <<sid>>,
                    find_nearest_warehouse(heap'[heap'[_services'].repos].seller,
                                           heap'[heap'[_services'].repos].warehouse, sid))
    /\ UNCHANGED <<engine, threads, resets>>

\* ---- get_repositories called from several threads: one step per line ----
\* line 53: if _repositories is None
Check(t) ==
    /\ threads[t].pc = "call"
    /\ threads' = [threads EXCEPT ![t].pc =
                      IF _repositories = 0 THEN "construct" ELSE "return"]
    /\ UNCHANGED <<engine, ret, _repositories, _services, heap, resets>>

\* lines 54-59: _repositories = Repositories(...)
Construct(t) ==
    /\ threads[t].pc = "construct"
    /\ heap' = Append(heap, EmptyRepositories)
    /\ _repositories' = Len(heap) + 1
    /\ threads' = [threads EXCEPT ![t].pc = "seed"]
    /\ UNCHANGED <<engine, ret, _services, resets>>

\* line 61: seed_data(_repositories) is called with the global's value
CallSeed(t) ==
    /\ threads[t].pc = "seed"
    /\ threads' = [threads EXCEPT ![t].pc = "seeding", ![t].target = _repositories]
    /\ UNCHANGED <<engine, ret, _repositories, _services, heap, resets>>

\* seed_data: the next add, or the return after the last one
SeedStep(t) ==
    /\ threads[t].pc = "seeding"
    /\ IF threads[t].step < SeedSteps
       THEN /\ heap' = [heap EXCEPT ![threads[t].target] =
                           seed_add(@, threads[t].step + 1)]
            /\ threads' = [threads EXCEPT ![t].step = @ + 1]
       ELSE /\ threads' = [threads EXCEPT ![t].pc = "return"]
            /\ heap' = heap
    /\ UNCHANGED <<engine, ret, _repositories, _services, resets>>

\* line 63: return _repositories
ReturnSingleton(t) ==
    /\ threads[t].pc = "return"
    /\ threads' = [threads EXCEPT ![t].pc = "returned", ![t].result = _repositories]
    /\ UNCHANGED <<engine, ret, _repositories, _services, heap, resets>>

\* the caller lists the warehouses of the instance it got
Use(t) ==
    /\ threads[t].pc = "returned"
    /\ threads' = [threads EXCEPT
                      ![t].pc = "done",
                      ![t].seen = get_all(heap[threads[t].result].warehouse)]
    /\ UNCHANGED <<engine, ret, _repositories, _services, heap, resets>>

NextFactory == RegisterStrategy \/ GetStrategy \/ IsApplicable \/ Return

NextPricing == CalculateCost \/ CalculateDeliveryCost \/ CalculateFromWarehouse \/ Return

NextEngine ==
    \/ AddWarehouse \/ DeleteWarehouse \/ ClearWarehouses \/ AddProduct
    \/ FindNearestWarehouse \/ CalculateFromWarehouseEdited \/ CalculateTotal
    \/ GetStrategy \/ Return

NextRepeat == CalculateFromWarehouseEdited \/ CalculateTotal \/ Keep \/ Return

NextEntities ==
    \/ Calculate \/ CalculateFromCoords \/ ConstructLocation
    \/ ConstructProduct \/ StoreProduct \/ Return

NextRepository ==
    \/ AddWarehouse \/ UpdateWarehouse \/ DeleteWarehouse \/ ClearWarehouses
    \/ GetAllWarehouses \/ FindNearestWarehouse \/ Return

NextContainer ==
    \/ GetRepositories \/ GetServices \/ ResetDependencies
    \/ DeleteFromSingleton \/ NearestFromSingleton \/ Return

NextThreads ==
    \E t \in Threads :
       \/ Check(t) \/ Construct(t) \/ CallSeed(t) \/ SeedStep(t)
       \/ ReturnSingleton(t) \/ Use(t)

NextApi ==
    \/ GetShippingCharge \/ CalculateTotalShipping \/ GetNearestWarehouse
    \/ ClearWarehouses \/ Return

Next ==
    \/ NextFactory \/ NextPricing \/ NextEngine \/ NextRepeat \/ NextEntities
    \/ NextApi \/ NextRepository \/ NextContainer \/ NextThreads

\* the factory alone, with strategies registered at run time
SpecFactory == Init /\ [][NextFactory]_vars

\* the pricing operations on the factory and stores that get_services builds
SpecPricing == Init /\ [][NextPricing]_vars

\* the services on repositories that are edited after seeding
SpecEngine == Init /\ [][NextEngine]_vars

\* pricing calls repeated on the seeded repositories
SpecRepeat == Init /\ [][NextRepeat]_vars

\* the entity constructors and the distance calculator
SpecEntities == Init /\ [][NextEntities]_vars

\* the three routes, on the seeded repositories and with no warehouse left
SpecApi == Init /\ [][NextApi]_vars

\* the warehouse repository under add, update, delete and clear
SpecRepository == Init /\ [][NextRepository]_vars

\* the dependency functions called one at a time
SpecContainer == Init /\ [][NextContainer]_vars

\* get_repositories called from the threads of Threads at once
SpecThreads == Init /\ [][NextThreads]_vars

Spec == Init /\ [][Next]_vars

(***************************************************************************)
(* Properties.                                                             *)
(***************************************************************************)
\* the set of entries of a strategy list
Entries(list) == {list[i] : i \in 1..Len(list)}

\* a finite distance that is not negative
FiniteNonNegative(d) == d.kind = "fin" /\ d.sign = 0

\* the entries of the current list whose interval [min_distance, max_distance)
\* contains d
Containing(d) ==
    {e \in Entries(strategies) :
        FLe(e.strategy.min_distance, d) /\ FLt(d, e.strategy.max_distance)}

\* get_strategy has just returned or raised for distance ret.args[1]
Selected == ret.op = "get_strategy"

\* C1: with the default strategy set, get_strategy(d) returns Mini Van for
\* 0 <= d < 100, Truck for 100 <= d < 500 and Aeroplane for d >= 500, so that
\* 100 itself is Truck's, 500 itself is Aeroplane's and 0 is Mini Van's.
C1_DefaultTiers ==
    (Selected /\ strategies = DefaultStrategies /\ FLe(Dec(0, 1), ret.args[1]))
    => /\ ret.status = "ok"
       /\ ret.value.strategy.mode_name =
             (IF FLt(ret.args[1], Dec(100, 1)) THEN "Mini Van"
              ELSE IF FLt(ret.args[1], Dec(500, 1)) THEN "Truck"
              ELSE "Aeroplane")

C1_Witness ==
    /\ Selected /\ strategies = DefaultStrategies
    /\ ret.args[1] = Dec(100, 1)
    /\ ret.status = "ok" /\ ret.value.strategy = TruckStrategy

\* C2: the three default intervals partition [0, infinity): for every finite
\* d >= 0 exactly one default strategy is applicable, and each interval ends
\* where the next one starts.
C2_DefaultsPartition ==
    (ret.op = "is_applicable" /\ strategies = DefaultStrategies
        /\ FiniteNonNegative(ret.args[1]))
    => /\ Cardinality({i \in 1..3 : ret.value[i]}) = 1
       /\ \A i \in 1..2 : strategies[i].strategy.max_distance
                             = strategies[i + 1].strategy.min_distance
       /\ strategies[1].strategy.min_distance = Dec(0, 1)
       /\ strategies[3].strategy.max_distance = FInf

C2_Witness ==
    /\ ret.op = "is_applicable" /\ strategies = DefaultStrategies
    /\ ret.args[1] = Dec(100, 1)
    /\ ret.value = <<FALSE, TRUE, FALSE>>

\* C3 as claimed: get_strategy with a negative distance fails with the error
\* kind the engine uses for an unparseable delivery speed.
C3_SameKindAsInvalidSpeed ==
    (Selected /\ FLt(ret.args[1], Dec(0, 1)))
    => ret.status = validate_delivery_speed(<<"f", "a", "s", "t">>).status

\* C3 as amended: in every factory state get_strategy with a negative distance
\* raises ValueError, which is not the ValidationError an unparseable delivery
\* speed raises, and returns no strategy.
C3_NegativeRaisesValueError ==
    (Selected /\ FLt(ret.args[1], Dec(0, 1)))
    => /\ ret.status = "ValueError"
       /\ ret.status # validate_delivery_speed(<<"f", "a", "s", "t">>).status
       /\ ret.value = <<"Distance cannot be negative", ret.args[1]>>

C3_Witness ==
    /\ Selected /\ registered > 0
    /\ ret.args[1] = Dec(-10, 1)
    /\ ret.status = "ValueError"

\* C4: after any registrations, get_strategy(d) for d >= 0 returns, of the
\* strategies whose interval contains d, the one with the least min_distance,
\* and among those with that min_distance the one registered first.
C4_FirstInMinOrder ==
    (Selected /\ FLe(Dec(0, 1), ret.args[1]) /\ Containing(ret.args[1]) # {})
    => /\ ret.status = "ok"
       /\ ret.value \in Containing(ret.args[1])
       /\ \A e \in Containing(ret.args[1]) \ {ret.value} :
             \/ FLt(ret.value.strategy.min_distance, e.strategy.min_distance)
             \/ /\ ret.value.strategy.min_distance = e.strategy.min_distance
                /\ ret.value.uid < e.uid

\* a Drone [0, 200) registered at run time does not displace Mini Van [0, 100)
C4_Witness ==
    /\ Selected /\ ret.args[1] = Dec(50, 1)
    /\ ret.status = "ok" /\ ret.value = Entry(MiniVanStrategy, 1)
    /\ \E e \in Containing(ret.args[1]) :
          e.strategy.mode_name = "Drone" /\ e.uid > 3

\* the list is in non-decreasing min_distance order
SortedByMin(list) ==
    \A i \in 1..(Len(list) - 1) :
        FLe(list[i].strategy.min_distance, list[i + 1].strategy.min_distance)

\* C5: the strategy list is always sorted by non-decreasing min_distance and
\* holds the three defaults; no step removes an entry, and a register_strategy
\* step adds exactly the strategy it was given.
C5_SortedAndGrowing ==
    /\ SortedByMin(strategies)
    /\ Entries(DefaultStrategies) \subseteq Entries(strategies)
    /\ [][/\ SortedByMin(strategies')
          /\ Entries(strategies) \subseteq Entries(strategies')
          /\ ret'.op = "register_strategy"
                => /\ Len(strategies') = Len(strategies) + 1
                   /\ \E e \in Entries(strategies') \ Entries(strategies) :
                         e.strategy = ret'.args[1]
          /\ ret'.op # "register_strategy" => strategies' = strategies]_vars

C5_Witness ==
    /\ ret.op = "register_strategy" /\ ret.args[1].mode_name = "Drone"
    /\ [i \in 1..Len(strategies) |-> strategies[i].strategy.mode_name]
          = <<"Mini Van", "Drone", "Truck", "Aeroplane", "Ship">>

C8_TransportCost ==
    ret.op = "calculate_cost"
    => /\ ret.value.transport_cost
             = Round2(FMul(FMul(ret.args[2], ret.args[1].rate_per_km_per_kg),
                           ret.args[3]))
       /\ ret.value.transport_cost = Round2(ret.value.transport_cost)
       /\ ret.value.transport_mode = ret.args[1].mode_name
       /\ ret.value.rate_per_km_per_kg = ret.args[1].rate_per_km_per_kg
       /\ ret.value.distance_km = ret.args[2]
       /\ ret.value.weight_kg = ret.args[3]
       /\ ret.args = <<MiniVanStrategy, Dec(50, 1), Dec(2, 1)>>
             => ret.value.transport_cost = Dec(300, 1)
       /\ ret.args = <<TruckStrategy, Dec(200, 1), Dec(5, 1)>>
             => ret.value.transport_cost = Dec(2000, 1)
       /\ ret.args = <<AeroplaneStrategy, Dec(1000, 1), Dec(3, 1)>>
             => ret.value.transport_cost = Dec(3000, 1)

\* 123.45 km * 3 * 0.0125 kg = 4.629375 is reported as 4.63
C8_Witness ==
    /\ ret.op = "calculate_cost"
    /\ ret.args = <<MiniVanStrategy, Dec(12345, 100), Dec(125, 10000)>>
    /\ ret.value.transport_cost = Dec(463, 100)

\* C9 as claimed: base_charge is 10.0, extra_charge is 0 for Standard and
\* round(1.2 * weight, 2) for Express, and total is round(base_charge +
\* extra_charge, 2) of the reported, already rounded extra_charge.
C9_TotalFromRoundedExtra ==
    ret.op = "_calculate_delivery_cost"
    => /\ ret.value.base_charge = Dec(10, 1)
       /\ ret.value.extra_charge =
             (IF ret.args[1] = EXPRESS
              THEN Round2(FMul(Dec(12, 10), ret.args[2]))
              ELSE Dec(0, 1))
       /\ ret.value.total
             = Round2(FAdd(ret.value.base_charge, ret.value.extra_charge))

\* C10: in every successful pricing result, shipping_charge is
\* round(transport_cost + delivery_cost.total, 2) of the rounded sub-totals
\* reported in the same result.
C10_ChargeIsSumOfSubtotals ==
    (ret.op = "calculate_from_warehouse" /\ ret.status = "ok")
    => ret.value.shipping_charge
          = Round2(FAdd(ret.value.transport_cost, ret.value.delivery_cost.total))

\* Mumbai to Pune, 5 kg, express: 1201.50 + 16.00 = 1217.50
C10_Witness ==
    /\ ret.op = "calculate_from_warehouse" /\ ret.status = "ok"
    /\ ret.args = <<1, 1, 1, EXPRESS>>
    /\ ret.value.transport_cost = Dec(120150, 100)
    /\ ret.value.delivery_cost.total = Dec(16, 1)
    /\ ret.value.shipping_charge = Dec(121750, 100)
    /\ ret.value.delivery_cost.total = Dec(16, 1)
    /\ ret.value.shipping_charge = Dec(121750, 100)
\* the outcome of the completed calculate_from_warehouse call had it asked for
\* standard delivery, the other arguments and the repositories being the same
StandardOutcome ==
    calculate_from_warehouse(strategies, warehouse_store, customer_store,
        product_store, ret.args[1], ret.args[2], ret.args[3], STANDARD)

ExpressPriced ==
    /\ ret.op = "calculate_from_warehouse" /\ ret.status = "ok"
    /\ ret.value.delivery_cost.speed = EXPRESS

\* C11 as claimed: for the same warehouse, customer and product the Express
\* charge is at least the Standard charge, and strictly greater whenever the
\* product weight is positive.
C11_ExpressStrictlyGreater ==
    ExpressPriced
    => /\ StandardOutcome.status = "ok"
       /\ FLe(StandardOutcome.value.shipping_charge, ret.value.shipping_charge)
       /\ FLt(Dec(0, 1), ret.value.weight_kg)
             => FLt(StandardOutcome.value.shipping_charge, ret.value.shipping_charge)

\* C11 as amended: the Express charge is at least the Standard charge, and
\* strictly greater whenever 1.2 * weight is at least one cent; below that the
\* two charges can be equal although the weight is positive.
C11_ExpressAtLeastStandard ==
    ExpressPriced
    => /\ StandardOutcome.status = "ok"
       /\ FLe(StandardOutcome.value.shipping_charge, ret.value.shipping_charge)
       /\ FLe(Dec(1, 100), FMul(EXPRESS_EXTRA_PER_KG, ret.value.weight_kg))
             => FLt(StandardOutcome.value.shipping_charge, ret.value.shipping_charge)

\* the one gram product is shipped from Mumbai to customer 1 for 10.24 by
\* either speed
C11_Witness ==
    /\ ExpressPriced
    /\ ret.args[1] = 1 /\ ret.args[2] = 1
    /\ ret.value.weight_kg = Dec(1, 1000)
    /\ ret.value.shipping_charge = Dec(1024, 100)
    /\ StandardOutcome.value.shipping_charge = Dec(1024, 100)

\* distance * rate * weight before it is rounded
RawCost(s, distance_km, weight_kg) ==
    FMul(FMul(distance_km, s.rate_per_km_per_kg), weight_kg)

\* the distances below that of the completed calculate_cost call that lie in
\* the interval of its strategy, when its own distance does
LowerInTier ==
    { d \in CostDistances :
        /\ FLt(d, ret.args[2])
        /\ is_applicable(ret.args[1], d)
        /\ is_applicable(ret.args[1], ret.args[2]) }

\* C12 as claimed: for a fixed positive weight and two distances d1 < d2 of
\* the same tier, the transport cost for d2 is strictly greater than for d1.
C12_StrictlyIncreasing ==
    (ret.op = "calculate_cost" /\ FLt(Dec(0, 1), ret.args[3]))
    => \A d \in LowerInTier :
          FLt(calculate_cost(ret.args[1], d, ret.args[3]).transport_cost,
              ret.value.transport_cost)

\* C12 as amended: for a fixed positive weight and two distances d1 < d2 of
\* the same tier, the transport cost for d2 is at least that for d1, and
\* strictly greater whenever the unrounded products differ by two cents or
\* more.
C12_NonDecreasing ==
    (ret.op = "calculate_cost" /\ FLt(Dec(0, 1), ret.args[3]))
    => \A d \in LowerInTier :
          /\ FLe(calculate_cost(ret.args[1], d, ret.args[3]).transport_cost,
                 ret.value.transport_cost)
          /\ FLe(FAdd(RawCost(ret.args[1], d, ret.args[3]), Dec(2, 100)),
                 RawCost(ret.args[1], ret.args[2], ret.args[3]))
                => FLt(calculate_cost(ret.args[1], d, ret.args[3]).transport_cost,
                       ret.value.transport_cost)

\* one gram by Mini Van costs 0.15 over 50 km and over 51 km
C12_Witness ==
    /\ ret.op = "calculate_cost"
    /\ ret.args = <<MiniVanStrategy, Dec(51, 1), Dec(1, 1000)>>
    /\ Dec(50, 1) \in LowerInTier
    /\ ret.value.transport_cost = Dec(15, 100)
    /\ calculate_cost(MiniVanStrategy, Dec(50, 1), Dec(1, 1000)).transport_cost
          = Dec(15, 100)

\* the ids under which a store holds an entity
IdsOf(store, key) == { store[i][key] : i \in 1..Len(store) }

\* C13: calculate_from_warehouse parses the speed first: it raises
\* ValidationError exactly when the lower-cased speed is neither 'standard'
\* nor 'express', in whatever letter case the two words are written, and also
\* when the warehouse, customer or product id does not exist.
C13_SpeedParsedFirst ==
    ret.op = "calculate_from_warehouse"
    => /\ ret.status = "ValidationError" <=> Lower(ret.args[4]) \notin {STANDARD, EXPRESS}
       /\ ret.args[4] \in {STANDARD, EXPRESS, <<"E", "x", "p", "r", "e", "s", "s">>,
                           <<"S", "T", "A", "N", "D", "A", "R", "D">>}
             => ret.status # "ValidationError"
       /\ ret.args[4] \in {<<"o", "v", "e", "r", "n", "i", "g", "h", "t">>, <<>>}
             => /\ ret.status = "ValidationError"
                /\ ret.value = <<"Invalid delivery speed", ret.args[4]>>

\* 'overnight' is refused although warehouse 6, customer 6 and product 6 do
\* not exist
C13_Witness ==
    /\ ret.op = "calculate_from_warehouse"
    /\ ret.args = <<6, 6, 6, <<"o", "v", "e", "r", "n", "i", "g", "h", "t">>>>
    /\ 6 \notin IdsOf(warehouse_store, "warehouse_id")
    /\ ret.status = "ValidationError"

\* C14: calculate_from_warehouse with a valid speed raises NotFoundError
\* when the warehouse, customer or product id is not in its store; the error
\* names the entity type and id of the first one missing in the order
\* warehouse, customer, product; otherwise a result is returned.
C14_FirstMissingReported ==
    (ret.op = "calculate_from_warehouse" /\ Lower(ret.args[4]) \in {STANDARD, EXPRESS})
    => IF ret.args[1] \notin IdsOf(warehouse_store, "warehouse_id")
       THEN /\ ret.status = "NotFoundError"
            /\ ret.value = <<"Warehouse", "with ID", ret.args[1], "not found">>
       ELSE IF ret.args[2] \notin IdsOf(customer_store, "customer_id")
       THEN /\ ret.status = "NotFoundError"
            /\ ret.value = <<"Customer", "with ID", ret.args[2], "not found">>
       ELSE IF ret.args[3] \notin IdsOf(product_store, "product_id")
       THEN /\ ret.status = "NotFoundError"
            /\ ret.value = <<"Product", "with ID", ret.args[3], "not found">>
       ELSE ret.status = "ok"

\* warehouse 1 exists, customer 6 and product 6 do not: the customer is named
C14_Witness ==
    /\ ret.op = "calculate_from_warehouse"
    /\ ret.args = <<1, 6, 6, EXPRESS>>
    /\ ret.status = "NotFoundError"
    /\ ret.value = <<"Customer", "with ID", 6, "not found">>

\* C15: calculate_total looks the product up before anything else: when the
\* product id is not in the store it raises NotFoundError naming the product
\* and its id, whether or not the seller and the customer exist, a warehouse
\* is registered and the speed is valid.
C15_ProductResolvedFirst ==
    (ret.op = "calculate_total" /\ ret.args[3] \notin IdsOf(product_store, "product_id"))
    => /\ ret.status = "NotFoundError"
       /\ ret.value = <<"Product", "with ID", ret.args[3], "not found">>

\* no warehouse is registered, seller 6 and customer 6 do not exist and
\* 'overnight' is no speed: the missing product 6 is what is reported
C15_Witness ==
    /\ ret.op = "calculate_total"
    /\ ret.args = <<6, 6, 6, <<"o", "v", "e", "r", "n", "i", "g", "h", "t">>>>
    /\ warehouse_store = <<>>
    /\ 6 \notin IdsOf(seller_store, "seller_id")
    /\ 6 \notin IdsOf(customer_store, "customer_id")
    /\ ret.value = <<"Product", "with ID", 6, "not found">>

\* the seller of the completed find_nearest_warehouse call
CalledSeller == get_by_id(seller_store, "seller_id", ret.args[1])

\* the distance from that seller to the warehouse at position j of get_all()
DistanceTo(j) == calculate(CalledSeller.location, warehouse_store[j].location)

\* C16: for an existing seller and a non-empty warehouse collection,
\* find_nearest_warehouse returns a registered warehouse and its distance from
\* the seller, which no registered warehouse undercuts; of several warehouses
\* at that distance it returns the first in get_all() order.
C16_NearestFirstListed ==
    (/\ ret.op = "find_nearest_warehouse"
     /\ ret.args[1] \in IdsOf(seller_store, "seller_id")
     /\ warehouse_store # <<>>)
    => /\ ret.status = "ok"
       /\ \E i \in 1..Len(warehouse_store) :
             /\ ret.value[1] = warehouse_store[i]
             /\ ret.value[2] = DistanceTo(i)
             /\ \A j \in 1..Len(warehouse_store) :
                   /\ FLe(ret.value[2], DistanceTo(j))
                   /\ DistanceTo(j) = ret.value[2] => i <= j

\* warehouse 1, deleted and added again at the coordinates of warehouse 2, is
\* listed last: seller 2 is 14.44 km from both and is given warehouse 2
C16_Witness ==
    /\ ret.op = "find_nearest_warehouse" /\ ret.args = <<2>>
    /\ Len(warehouse_store) = 5
    /\ warehouse_store[5].warehouse_id = 1
    /\ DistanceTo(5) = Dec(1444, 100)
    /\ ret.status = "ok"
    /\ ret.value = <<warehouse_store[1], Dec(1444, 100)>>
    /\ ret.value[1].warehouse_id = 2

\* C17: find_nearest_warehouse raises NotFoundError when the seller id is not
\* in the store, naming the seller also when no warehouse is registered, and
\* raises NotFoundError when the seller exists and no warehouse is registered;
\* in neither case a pair is returned.
C17_SellerThenWarehouses ==
    ret.op = "find_nearest_warehouse"
    => /\ ret.args[1] \notin IdsOf(seller_store, "seller_id")
             => /\ ret.status = "NotFoundError"
                /\ ret.value = <<"Seller", "with ID", ret.args[1], "not found">>
       /\ (ret.args[1] \in IdsOf(seller_store, "seller_id") /\ warehouse_store = <<>>)
             => /\ ret.status = "NotFoundError"
                /\ ret.value = <<"No warehouses available in the system">>

C17_Witness ==
    /\ ret.op = "find_nearest_warehouse" /\ ret.args = <<6>>
    /\ warehouse_store = <<>>
    /\ ret.status = "NotFoundError"
    /\ ret.value = <<"Seller", "with ID", 6, "not found">>

\* what find_nearest_warehouse returns for the seller of the completed
\* calculate_total call
FoundForTotal == find_nearest_warehouse(seller_store, warehouse_store, ret.args[1])

\* what calculate_from_warehouse returns for that warehouse and the customer,
\* product and speed of the call
PricedForTotal ==
    calculate_from_warehouse(strategies, warehouse_store, customer_store,
        product_store, FoundForTotal.value[1].warehouse_id,
        ret.args[2], ret.args[3], ret.args[4])

\* C18: when calculate_total succeeds, its nearest_warehouse is the warehouse
\* find_nearest_warehouse returns for the seller, its breakdown is the result
\* of calculate_from_warehouse for that warehouse's id, and the transport mode
\* is the one selected for the distance from that warehouse to the customer.
C18_TotalDelegates ==
    (ret.op = "calculate_total" /\ ret.status = "ok")
    => /\ FoundForTotal.status = "ok"
       /\ ret.value.nearest_warehouse = FoundForTotal.value[1]
       /\ PricedForTotal.status = "ok"
       /\ ret.value.breakdown = PricedForTotal.value
       /\ ret.value.shipping_charge = PricedForTotal.value.shipping_charge
       /\ ret.value.distance_km
             = calculate(ret.value.nearest_warehouse.location,
                         get_by_id(customer_store, "customer_id", ret.args[2]).location)
       /\ ret.value.breakdown.transport_mode
             = get_strategy(strategies, ret.value.distance_km).value.strategy.mode_name

\* with warehouse 1 deleted, seller 1 is served from warehouse 3, 735.23 km
\* from customer 1, by Aeroplane instead of by Truck
C18_Witness ==
    /\ ret.op = "calculate_total" /\ ret.status = "ok"
    /\ ret.args = <<1, 1, 1, <<"E", "x", "p", "r", "e", "s", "s">>>>
    /\ 1 \notin IdsOf(warehouse_store, "warehouse_id")
    /\ ret.value.nearest_warehouse.warehouse_id = 3
    /\ ret.value.distance_km = Dec(73523, 100)
    /\ ret.value.breakdown.transport_mode = "Aeroplane"
    /\ ret.value.shipping_charge = Dec(369215, 100)

\* C19: calculate_from_warehouse, calculate_total, find_nearest_warehouse and
\* get_strategy, whether they return or raise, leave the four stores (their
\* entities and their order) and the factory's strategy list as they were.
C19_CallsChangeNothing ==
    [][ret'.op \in PricingOps \cup {"find_nearest_warehouse", "get_strategy"}
          => /\ warehouse_store' = warehouse_store
             /\ seller_store' = seller_store
             /\ customer_store' = customer_store
             /\ product_store' = product_store
             /\ strategies' = strategies]_vars

\* a failed calculate_total on repositories that were edited before it
C19_Witness ==
    /\ ret.op = "calculate_total" /\ ret.status = "NotFoundError"
    /\ edits = 2
    /\ warehouse_store # SeedWarehouses
    /\ seller_store = SeedSellers /\ customer_store = SeedCustomers
    /\ strategies = DefaultStrategies

InRange(lat, lng) ==
    /\ lat.kind = "fin" /\ FCmp(Dec(-90, 1), lat) <= 0 /\ FCmp(lat, Dec(90, 1)) <= 0
    /\ lng.kind = "fin" /\ FCmp(Dec(-180, 1), lng) <= 0 /\ FCmp(lng, Dec(180, 1)) <= 0

RangeMessages ==
    {"Latitude must be between -90 and 90", "Longitude must be between -180 and 180"}

\* C21: calculate is symmetric: a call with the two locations exchanged has the
\* same outcome, the same distance where the call returns.
C21_Symmetric ==
    ret.op = "calculate"
    => calculate_call(ret.args[2], ret.args[1]) =
          [status |-> ret.status, value |-> ret.value]

C21_Witness ==
    /\ ret.op = "calculate"
    /\ ret.args = <<KnownLocs[1], KnownLocs[2]>>
    /\ ret.status = "ok"
    /\ ret.value = Dec(115324, 100)

\* C22: calculate returns a distance, 0 for twice the same location and never a
\* negative one, for every pair of valid locations.
C22_ZeroAndNonNegative ==
    ret.op = "calculate"
    => /\ ret.status = "ok"
       /\ FLe(FZero, ret.value)
       /\ (ret.args[1] = ret.args[2] => ret.value = FZero)

\* C23: Location(lat, lng) succeeds exactly when both coordinates are in the
\* closed ranges and then holds these coordinates; otherwise it raises and
\* calculate_from_coords never gets as far as the haversine computation.
C23_LocationIffInRange ==
    /\ ret.op = "Location"
       => /\ ret.status = "ok" <=> InRange(ret.args[1], ret.args[2])
          /\ ret.status = "ok"
             => /\ Degrees(ret.value.lat) = ret.args[1]
                /\ Degrees(ret.value.lng) = ret.args[2]
          /\ ret.status # "ok"
             => ret.status = "ValueError" /\ ret.value[1] \in RangeMessages
    /\ ret.op = "calculate_from_coords"
       => (/\ InRange(ret.args[1], ret.args[2])
           /\ InRange(ret.args[3], ret.args[4]))
          <=> ~(ret.status = "ValueError" /\ ret.value[1] \in RangeMessages)

C23_Witness ==
    /\ ret.op = "Location"
    /\ ret.args = <<Degrees(900000), Degrees(-1800000)>>
    /\ ret.status = "ok"
    /\ ret.value = Location(900000, -1800000)

\* C24: Product(...) raises when weight_kg <= 0 or price < 0 and succeeds
\* otherwise, and the weight of every constructed and of every stored product
\* is strictly positive.
C24_WeightsPositive ==
    /\ ret.op = "Product"
       => /\ ret.status = "ValueError"
             <=> (FLe(ret.args[4], FZero) \/ FLt(ret.args[3], FZero))
          /\ ret.status # "ValueError"
             => ret.status = "ok" /\ FLt(FZero, ret.value.weight_kg)
    /\ \A i \in 1..Len(product_store) : FLt(FZero, product_store[i].weight_kg)

(***************************************************************************)
(* The HTTP layer.                                                         *)
(***************************************************************************)
Routes == {"get_shipping_charge", "calculate_total_shipping", "get_nearest_warehouse"}

\* C25: a request whose operation fails with NotFoundError is answered 404 and
\* one whose operation fails with ValidationError is answered 400; no other
\* request is answered with one of these two statuses.
C25_NotFound404Invalid400 ==
    ret.op \in Routes
    => /\ ret.status = "NotFoundError" <=> ret.value.status_code = 404
       /\ ret.status = "ValidationError" <=> ret.value.status_code = 400
       /\ ret.status = "ok" <=> ret.value.status_code = 200

C25_Witness ==
    /\ ret.op = "calculate_total_shipping"
    /\ ret.args = <<1, 1, 1, <<"o", "v", "e", "r", "n", "i", "g", "h", "t">> >>
    /\ ret.status = "ValidationError"
    /\ ret.value.status_code = 400

(***************************************************************************)
(* calculate_total: order of the checks and shape of the result.           *)
(***************************************************************************)
\* C26: calculate_total reports the first check that fails in the order
\* product, seller, warehouses registered, delivery speed, customer, and
\* succeeds when none fails; an unparseable speed is therefore reported only
\* when the product and the seller exist and a warehouse is registered.
C26_FirstFailingCheck ==
    ret.op = "calculate_total"
    => IF ret.args[3] \notin IdsOf(product_store, "product_id")
       THEN /\ ret.status = "NotFoundError"
            /\ ret.value = <<"Product", "with ID", ret.args[3], "not found">>
       ELSE IF ret.args[1] \notin IdsOf(seller_store, "seller_id")
       THEN /\ ret.status = "NotFoundError"
            /\ ret.value = <<"Seller", "with ID", ret.args[1], "not found">>
       ELSE IF warehouse_store = <<>>
       THEN /\ ret.status = "NotFoundError"
            /\ ret.value = <<"No warehouses available in the system">>
       ELSE IF Lower(ret.args[4]) \notin {STANDARD, EXPRESS}
       THEN /\ ret.status = "ValidationError"
            /\ ret.value[2] = ret.args[4]
       ELSE IF ret.args[2] \notin IdsOf(customer_store, "customer_id")
       THEN /\ ret.status = "NotFoundError"
            /\ ret.value = <<"Customer", "with ID", ret.args[2], "not found">>
       ELSE ret.status = "ok"

\* 'overnight' is no speed and no warehouse is registered: for the existing
\* seller 1 and product 1 the missing warehouses are reported, not the speed
C26_Witness ==
    /\ ret.op = "calculate_total"
    /\ ret.args = <<1, 6, 1, <<"o", "v", "e", "r", "n", "i", "g", "h", "t">>>>
    /\ warehouse_store = <<>>
    /\ 1 \in IdsOf(seller_store, "seller_id")
    /\ 1 \in IdsOf(product_store, "product_id")
    /\ ret.status = "NotFoundError"
    /\ ret.value = <<"No warehouses available in the system">>

\* C27: in a successful calculate_total result the top-level distance_km is
\* the breakdown's distance_km, the distance from the selected warehouse to the
\* customer and not the one from the seller to that warehouse, and the
\* top-level shipping_charge is the breakdown's shipping_charge.
C27_TopLevelFromBreakdown ==
    (ret.op = "calculate_total" /\ ret.status = "ok")
    => /\ ret.value.distance_km = ret.value.breakdown.distance_km
       /\ ret.value.shipping_charge = ret.value.breakdown.shipping_charge
       /\ ret.value.breakdown.distance_km
             = calculate(ret.value.nearest_warehouse.location,
                         get_by_id(customer_store, "customer_id", ret.args[2]).location)
       /\ FoundForTotal.value[2] # ret.value.breakdown.distance_km
          => ret.value.distance_km # FoundForTotal.value[2]

\* seller 1 is 4.26 km from warehouse 1, which is 120.15 km from customer 1
C27_Witness ==
    /\ ret.op = "calculate_total" /\ ret.status = "ok"
    /\ ret.args = <<1, 1, 1, STANDARD>>
    /\ ret.value.nearest_warehouse.warehouse_id = 1
    /\ FoundForTotal.value[2] = Dec(426, 100)
    /\ ret.value.distance_km = Dec(12015, 100)
    /\ ret.value.breakdown.distance_km = Dec(12015, 100)

(***************************************************************************)
(* The order of a repository.                                              *)
(***************************************************************************)
WarehouseIdSeq(store) == [i \in 1..Len(store) |-> store[i].warehouse_id]

DistinctIds(store) ==
    \A i, j \in 1..Len(store) : store[i].warehouse_id = store[j].warehouse_id => i = j

\* the entity replaces the one stored under its id, where that one is
ReplacedInPlace(before, after, entity) ==
    /\ Len(after) = Len(before)
    /\ \A i \in 1..Len(before) :
          after[i] = IF before[i].warehouse_id = entity.warehouse_id
                     THEN entity ELSE before[i]

OnWarehouses(call) == call.op \in {"add", "update"} => "warehouse_id" \in DOMAIN call.args[1]

\* what one call of the warehouse repository does to the sequence get_all returns
OrderStep(before, after, call) ==
    /\ DistinctIds(after)
    /\ call.op = "add" /\ call.args[1].warehouse_id \in IdsOf(before, "warehouse_id")
       => ReplacedInPlace(before, after, call.args[1])
    /\ call.op = "add" /\ call.args[1].warehouse_id \notin IdsOf(before, "warehouse_id")
       => after = Append(before, call.args[1])
    /\ call.op = "update" /\ call.args[1].warehouse_id \in IdsOf(before, "warehouse_id")
       => ReplacedInPlace(before, after, call.args[1]) /\ call.value = call.args[1]
    /\ call.op = "update" /\ call.args[1].warehouse_id \notin IdsOf(before, "warehouse_id")
       => after = before /\ call.value = NoneValue
    /\ call.op = "delete"
       => /\ after = SelectSeq(before, LAMBDA w : w.warehouse_id # call.args[1])
          /\ call.value = (call.args[1] \in IdsOf(before, "warehouse_id"))
    /\ call.op = "clear" => after = <<>>
    /\ call.op = "get_all" => call.value = before /\ after = before

\* C28: every add, update, delete and clear keeps one warehouse per id in the
\* order of first insertion of the ids now stored, which is what get_all
\* returns: an add or update of a stored id replaces the entity where it is, an
\* add of an id not stored appends it (so delete then add moves it to the end),
\* an update of an id not stored changes nothing, delete takes the id out and
\* keeps the order of the others, clear leaves nothing.
C28_InsertionOrder ==
    [][(ret = Idle /\ OnWarehouses(ret'))
       => OrderStep(warehouse_store, warehouse_store', ret')]_vars

\* warehouse 1 was deleted and added again: it is now listed last
C28_Witness ==
    /\ ret.op = "add"
    /\ ret.args[1].warehouse_id = 1
    /\ WarehouseIdSeq(warehouse_store) = <<2, 3, 4, 5, 1>>

(***************************************************************************)
(* The singletons of dependencies.py.                                      *)
(***************************************************************************)
\* the threads that have got an instance from get_repositories
Returned == { t \in Threads : threads[t].pc \in {"returned", "done"} }

\* the threads that have called seed_data
Seeders == { t \in Threads : threads[t].target # 0 }

\* C29: of the threads that call get_repositories while there is no singleton,
\* all get the same instance, only one calls seed_data, and the instance a
\* thread has got is completely seeded, so that the warehouses it lists are
\* the five seeded ones.
C29_OneSeededInstance ==
    /\ \A t, u \in Returned : threads[t].result = threads[u].result
    /\ Cardinality(Seeders) <= 1
    /\ \A t \in Returned : heap[threads[t].result] = seed_data(EmptyRepositories)
    /\ \A t \in Threads : threads[t].pc = "done" => threads[t].seen = SeedWarehouses

====
